---- MODULE Spec2Model ----
(***************************************************************************)
(* Grade recording, result aggregation and result publishing of the        *)
(* university dashboard backend (services/assessment_grade_service.py over *)
(* repositories/assessment_grade_repository.py).                           *)
(*                                                                         *)
(* Every service method is an operator named as in the source.  It reads   *)
(* the tables (the variables) and returns the HTTP outcome together with   *)
(* the tables as the method leaves them; the action of the same name in    *)
(* CamelCase applies it.  Requests are executed one at a time, except      *)
(* under SpecConcurrent, where two requests run step by step, each step    *)
(* one round of database access, and `calls` holds where each has got to.  *)
(*                                                                         *)
(* Numbers.  Marks, max marks, weightages and credits are integers.  A     *)
(* weighted percentage is kept as an exact fraction [num, den]; grade      *)
(* points, GPA, SGPA and CGPA are integers in hundredths (850 is 8.50).    *)
(* Python's round(x, 2) on a binary float returns the nearest hundredth;   *)
(* when x lies exactly half way between two hundredths the float's binary  *)
(* representation decides the direction, so the direction is the parameter *)
(* `up` of every operator that rounds, chosen by the caller's action.      *)
(*                                                                         *)
(* Inputs.  course_id and graded_by are drawn from existing rows (the      *)
(* foreign keys of entities/grades.py are satisfied) and max_marks is      *)
(* positive; enrollment, assessment, grade and student ids may be missing. *)
(***************************************************************************)
EXTENDS Integers, Sequences, FiniteSets, TLC

(***************************************************************************)
(* Bounds of the model.                                                    *)
(***************************************************************************)
\* writes (ticks of the request clock) in one behaviour
MaxClock == 2
\* Grades rows in the table
MaxGrades == 2
\* items of one bulk request
MaxBulkItems == 3

(***************************************************************************)
(* Reference rows the grade service reads and never writes.                *)
(***************************************************************************)
\* enrollments.student_id, by enrollment id
EnrollmentStudent == <<1, 2, 1>>
\* courses.credits, by course id
CourseCredits == <<4, 3>>
\* program_courses.semester, by course offering id
OfferingSemester == <<1, 2>>
\* an id no table holds
MissingId == 9

EnrollmentIds == DOMAIN EnrollmentStudent
CourseIds == DOMAIN CourseCredits
OfferingIds == DOMAIN OfferingSemester

VARIABLES
    assessments,        \* id -> [course_offering_id, assessment_type, max_marks,
                        \*        weightage, updated_at]
    grades,             \* set of Grades rows
    semester_results,   \* set of SemesterResults rows
    students,           \* id -> [semester, cgpa, updated_at]; cgpa is {} while NULL
    clock,              \* the time of the last write
    last,               \* outcome of the last request
    scale,              \* a percentage put to _percentage_to_grade and its grade
    calls,              \* the requests being served at the same time, by caller
    hostels,            \* id -> [total_capacity, occupied_capacity]
    hostel_rooms,       \* id -> [hostel_id, room_number, capacity, occupied_beds, status]
    hostel_allocations, \* rows [id, student_id, hostel_id, room_id, status, remarks]
    library_books,      \* id -> [isbn, copies_total, copies_available, is_referenced]
    book_issues,        \* rows [id, book_id, user_id, status, remarks]
    redis               \* key -> [value, expires_at]: the keys that are set

\* the tables of the hostel and library services and the key-value store
other_tables == <<hostels, hostel_rooms, hostel_allocations, library_books, book_issues, redis>>

\* the tables of grading and results
grading == <<assessments, grades, semester_results, students, scale, calls>>

vars == <<assessments, grades, semester_results, students, clock, last, scale, calls,
          hostels, hostel_rooms, hostel_allocations, library_books, book_issues, redis>>

\* datetime.now(timezone.utc) of the request being served
now == clock + 1

(***************************************************************************)
(* Repository finders: scalar_one_or_none() is the set of matching rows,   *)
(* empty for None.                                                         *)
(***************************************************************************)
find_enrollment_by_id(enrollment_id) ==
    {e \in EnrollmentIds : e = enrollment_id}

find_assessment_by_id(assessment_id) ==
    {a \in DOMAIN assessments : a = assessment_id}

find_grade_by_id(grade_id) ==
    {g \in grades : g.id = grade_id}

find_grade_in(gs, enrollment_id, assessment_id) ==
    {g \in gs : g.enrollment_id = enrollment_id /\ g.assessment_id = assessment_id}

find_grade_by_enrollment_assessment(enrollment_id, assessment_id) ==
    find_grade_in(grades, enrollment_id, assessment_id)

find_student_by_id(student_id) ==
    {s \in DOMAIN students : s = student_id}

\* db.add + commit of a Grades row: the primary key is the next of the sequence
create_grade(gs, g) ==
    gs \cup {[g EXCEPT !.id = Cardinality(gs) + 1]}

Grades(enrollment_id, course_id, assessment_id, marks_obtained, remarks, graded_by) ==
    [id |-> 0,
     enrollment_id |-> enrollment_id,
     course_id |-> course_id,
     assessment_id |-> assessment_id,
     marks_obtained |-> marks_obtained,
     remarks |-> remarks,
     graded_by |-> graded_by,
     graded_at |-> now,
     updated_at |-> 0]

(***************************************************************************)
(* Grade Recorder                                                          *)
(***************************************************************************)
\* submit_grade as it would be with the lookup of the pair ahead of the marks check
submit_grade_lookup_first(enrollment_id, course_id, assessment_id, marks_obtained, remarks, graded_by) ==
    IF find_enrollment_by_id(enrollment_id) = {}
    THEN [status |-> 404, detail |-> "Enrollment not found", grades |-> grades]
    ELSE IF find_assessment_by_id(assessment_id) = {}
    THEN [status |-> 404, detail |-> "Assessment not found", grades |-> grades]
    ELSE IF find_grade_by_enrollment_assessment(enrollment_id, assessment_id) # {}
    THEN [status |-> 409, detail |-> "Grade already submitted", grades |-> grades]
    ELSE IF marks_obtained > assessments[assessment_id].max_marks
    THEN [status |-> 400, detail |-> "Marks obtained cannot exceed max marks",
          grades |-> grades]
    ELSE [status |-> 201, detail |-> "",
          grades |-> create_grade(grades,
                        Grades(enrollment_id, course_id, assessment_id,
                               marks_obtained, remarks, graded_by))]

\* submit_grade as it would be without the lookup of the pair
submit_grade_no_lookup(enrollment_id, course_id, assessment_id, marks_obtained, remarks, graded_by) ==
    IF find_enrollment_by_id(enrollment_id) = {}
    THEN [status |-> 404, detail |-> "Enrollment not found", grades |-> grades]
    ELSE IF find_assessment_by_id(assessment_id) = {}
    THEN [status |-> 404, detail |-> "Assessment not found", grades |-> grades]
    ELSE IF marks_obtained > assessments[assessment_id].max_marks
    THEN [status |-> 400, detail |-> "Marks obtained cannot exceed max marks",
          grades |-> grades]
    ELSE [status |-> 201, detail |-> "",
          grades |-> create_grade(grades,
                        Grades(enrollment_id, course_id, assessment_id,
                               marks_obtained, remarks, graded_by))]

submit_grade(enrollment_id, course_id, assessment_id, marks_obtained, remarks, graded_by) ==
    IF find_enrollment_by_id(enrollment_id) = {}
    THEN [status |-> 404, detail |-> "Enrollment not found", grades |-> grades]
    ELSE IF find_assessment_by_id(assessment_id) = {}
    THEN [status |-> 404, detail |-> "Assessment not found", grades |-> grades]
    ELSE IF marks_obtained > assessments[assessment_id].max_marks
    THEN [status |-> 400, detail |-> "Marks obtained cannot exceed max marks",
          grades |-> grades]
    ELSE IF find_grade_by_enrollment_assessment(enrollment_id, assessment_id) # {}
    THEN [status |-> 409, detail |-> "Grade already submitted", grades |-> grades]
    ELSE [status |-> 201, detail |-> "",
          grades |-> create_grade(grades,
                        Grades(enrollment_id, course_id, assessment_id,
                               marks_obtained, remarks, graded_by))]

\* update_data is {marks_obtained if has_marks, remarks if has_remarks}
\* update_grade as it would be if the grade kept the grader who submitted it
update_grade_keeping_grader(id, has_marks, marks_obtained, has_remarks, remarks, graded_by) ==
    IF find_grade_by_id(id) = {}
    THEN [status |-> 404, detail |-> "Grade not found", grades |-> grades]
    ELSE IF ~has_marks /\ ~has_remarks
    THEN [status |-> 400, detail |-> "No fields to update", grades |-> grades]
    ELSE LET grade == CHOOSE g \in find_grade_by_id(id) : TRUE
             assessment == find_assessment_by_id(grade.assessment_id)
         IN  IF /\ has_marks
                /\ assessment # {}
                /\ marks_obtained > assessments[grade.assessment_id].max_marks
             THEN [status |-> 400, detail |-> "Marks obtained cannot exceed max marks",
                   grades |-> grades]
             ELSE [status |-> 200, detail |-> "",
                   grades |-> (grades \ {grade}) \cup
                       {[grade EXCEPT
                            !.marks_obtained =
                                IF has_marks THEN marks_obtained ELSE @,
                            !.remarks = IF has_remarks THEN remarks ELSE @,
                            !.graded_at = now,
                            !.updated_at = now]}]

update_grade(id, has_marks, marks_obtained, has_remarks, remarks, graded_by) ==
    IF find_grade_by_id(id) = {}
    THEN [status |-> 404, detail |-> "Grade not found", grades |-> grades]
    ELSE IF ~has_marks /\ ~has_remarks
    THEN [status |-> 400, detail |-> "No fields to update", grades |-> grades]
    ELSE LET grade == CHOOSE g \in find_grade_by_id(id) : TRUE
             assessment == find_assessment_by_id(grade.assessment_id)
         IN  IF /\ has_marks
                /\ assessment # {}
                /\ marks_obtained > assessments[grade.assessment_id].max_marks
             THEN [status |-> 400, detail |-> "Marks obtained cannot exceed max marks",
                   grades |-> grades]
             ELSE [status |-> 200, detail |-> "",
                   grades |-> (grades \ {grade}) \cup
                       {[grade EXCEPT
                            !.marks_obtained =
                                IF has_marks THEN marks_obtained ELSE @,
                            !.remarks = IF has_remarks THEN remarks ELSE @,
                            !.graded_by = graded_by,
                            !.graded_at = now,
                            !.updated_at = now]}]

\* _process_bulk_grade_item as it would be if the lookup of the pair saw only the
\* grades stored before the request
_process_bulk_grade_item_stored_only(gs, item, assessment_id, max_marks, course_id, graded_by) ==
    IF find_enrollment_by_id(item.enrollment_id) = {}
    THEN [success |-> FALSE, message |-> "Enrollment not found", grades |-> gs]
    ELSE IF item.marks_obtained > max_marks
    THEN [success |-> FALSE, message |-> "Marks exceed max marks", grades |-> gs]
    ELSE IF find_grade_in(grades, item.enrollment_id, assessment_id) # {}
    THEN [success |-> FALSE, message |-> "Grade already exists for this assessment",
          grades |-> gs]
    ELSE [success |-> TRUE, message |-> "Grade submitted successfully",
          grades |-> create_grade(gs,
                        Grades(item.enrollment_id, course_id, assessment_id,
                               item.marks_obtained, item.remarks, graded_by))]

\* one item of a bulk request against the grades gs written so far
_process_bulk_grade_item(gs, item, assessment_id, max_marks, course_id, graded_by) ==
    IF find_enrollment_by_id(item.enrollment_id) = {}
    THEN [success |-> FALSE, message |-> "Enrollment not found", grades |-> gs]
    ELSE IF item.marks_obtained > max_marks
    THEN [success |-> FALSE, message |-> "Marks exceed max marks", grades |-> gs]
    ELSE IF find_grade_in(gs, item.enrollment_id, assessment_id) # {}
    THEN [success |-> FALSE, message |-> "Grade already exists for this assessment",
          grades |-> gs]
    ELSE [success |-> TRUE, message |-> "Grade submitted successfully",
          grades |-> create_grade(gs,
                        Grades(item.enrollment_id, course_id, assessment_id,
                               item.marks_obtained, item.remarks, graded_by))]

\* the for loop of bulk_submit_grades from item i on
RECURSIVE bulk_loop(_, _, _, _, _, _, _)
bulk_loop(acc, items, i, assessment_id, max_marks, course_id, graded_by) ==
    IF i > Len(items) THEN acc
    ELSE LET result == _process_bulk_grade_item(acc.grades, items[i], assessment_id,
                                                max_marks, course_id, graded_by)
         IN  bulk_loop(
                 [grades |-> result.grades,
                  results |-> Append(acc.results,
                                 [enrollment_id |-> items[i].enrollment_id,
                                  success |-> result.success,
                                  message |-> result.message]),
                  successful |-> acc.successful + (IF result.success THEN 1 ELSE 0),
                  failed |-> acc.failed + (IF result.success THEN 0 ELSE 1)],
                 items, i + 1, assessment_id, max_marks, course_id, graded_by)

bulk_submit_grades(assessment_id, course_id, items, graded_by) ==
    IF find_assessment_by_id(assessment_id) = {}
    THEN [status |-> 404, total |-> 0, successful |-> 0, failed |-> 0,
          results |-> <<>>, grades |-> grades]
    ELSE LET done == bulk_loop(
                 [grades |-> grades, results |-> <<>>, successful |-> 0, failed |-> 0],
                 items, 1, assessment_id, assessments[assessment_id].max_marks,
                 course_id, graded_by)
         IN  [status |-> 200, total |-> Len(items), successful |-> done.successful,
              failed |-> done.failed, results |-> done.results, grades |-> done.grades]

\* update_data is {max_marks if has_max_marks, weightage if has_weightage}
update_assessment(id, has_max_marks, max_marks, has_weightage, weightage) ==
    IF find_assessment_by_id(id) = {}
    THEN [status |-> 404, detail |-> "Assessment not found", assessments |-> assessments]
    ELSE IF ~has_max_marks /\ ~has_weightage
    THEN [status |-> 400, detail |-> "No fields to update", assessments |-> assessments]
    ELSE [status |-> 200, detail |-> "",
          assessments |-> [assessments EXCEPT
              ![id] = [@ EXCEPT
                  !.max_marks = IF has_max_marks THEN max_marks ELSE @,
                  !.weightage = IF has_weightage THEN weightage ELSE @,
                  !.updated_at = now]]]

(***************************************************************************)
(* Result Aggregator                                                       *)
(***************************************************************************)
RECURSIVE SumOver(_, _)
SumOver(S, f) ==
    IF S = {} THEN 0
    ELSE LET x == CHOOSE y \in S : TRUE IN f[x] + SumOver(S \ {x}, f)

RECURSIVE ProductOver(_, _)
ProductOver(S, f) ==
    IF S = {} THEN 1
    ELSE LET x == CHOOSE y \in S : TRUE IN f[x] * ProductOver(S \ {x}, f)

\* round(n / d, 0) for d > 0: the nearest integer, a tie resolved by `up`
Round(n, d, up) ==
    LET q == n \div d
        r == n % d
    IN  IF 2 * r < d THEN q
        ELSE IF 2 * r > d THEN q + 1
        ELSE IF up THEN q + 1 ELSE q

\* GradesOfStudentSemester as it would be without the filter on the semester
GradesOfStudentAnySemester(student_id, semester) ==
    {g \in grades :
        /\ g.assessment_id \in DOMAIN assessments
        /\ g.enrollment_id \in EnrollmentIds
        /\ assessments[g.assessment_id].course_offering_id \in OfferingIds
        /\ EnrollmentStudent[g.enrollment_id] = student_id}

\* the grades joined to Assessment, Enrollment and CourseOffering and filtered
\* on the student and the semester
GradesOfStudentSemester(student_id, semester) ==
    {g \in grades :
        /\ g.assessment_id \in DOMAIN assessments
        /\ g.enrollment_id \in EnrollmentIds
        /\ assessments[g.assessment_id].course_offering_id \in OfferingIds
        /\ EnrollmentStudent[g.enrollment_id] = student_id
        /\ OfferingSemester[assessments[g.assessment_id].course_offering_id] = semester}

\* SUM(marks_obtained / max_marks * weightage) over the rows gs, as a fraction
WeightedPercentage(gs) ==
    LET max_marks == [g \in gs |-> assessments[g.assessment_id].max_marks]
        den == ProductOver(gs, max_marks)
        term == [g \in gs |->
                    g.marks_obtained * assessments[g.assessment_id].weightage
                        * (den \div max_marks[g])]
    IN  [num |-> SumOver(gs, term), den |-> den]

get_student_course_grades_for_semester(student_id, semester) ==
    LET joined == {g \in GradesOfStudentSemester(student_id, semester) :
                      g.course_id \in CourseIds}
    IN  {[course_id |-> c,
          credits |-> CourseCredits[c],
          weighted_percentage |-> WeightedPercentage({g \in joined : g.course_id = c})] :
            c \in {g.course_id : g \in joined}}

\* _percentage_to_grade as it would be without min(..., 10.0)
_percentage_to_grade_uncapped(percentage, up) ==
    LET gp == Round(10 * percentage.num, percentage.den, up)
        AtLeast(p) == percentage.num >= p * percentage.den
    IN  IF AtLeast(90) THEN <<gp, "O">>
        ELSE IF AtLeast(80) THEN <<gp, "A+">>
        ELSE IF AtLeast(70) THEN <<gp, "A">>
        ELSE IF AtLeast(60) THEN <<gp, "B+">>
        ELSE IF AtLeast(50) THEN <<gp, "B">>
        ELSE IF AtLeast(40) THEN <<gp, "C">>
        ELSE <<gp, "F">>

_percentage_to_grade(percentage, up) ==
    LET rounded == Round(10 * percentage.num, percentage.den, up)
        gp == IF rounded < 1000 THEN rounded ELSE 1000
        AtLeast(p) == percentage.num >= p * percentage.den
    IN  IF AtLeast(90) THEN <<gp, "O">>
        ELSE IF AtLeast(80) THEN <<gp, "A+">>
        ELSE IF AtLeast(70) THEN <<gp, "A">>
        ELSE IF AtLeast(60) THEN <<gp, "B+">>
        ELSE IF AtLeast(50) THEN <<gp, "B">>
        ELSE IF AtLeast(40) THEN <<gp, "C">>
        ELSE <<gp, "F">>

\* calculate_sgpa as it would be if it answered with the published GPA of the
\* semester where there is one
calculate_sgpa_published(student_id, semester, up) ==
    LET rows == get_student_course_grades_for_semester(student_id, semester)
        credits == [row \in rows |-> row.credits]
        weighted == [row \in rows |->
                        row.credits * _percentage_to_grade(row.weighted_percentage, up)[1]]
        total_credits == SumOver(rows, credits)
        stored == {r \in semester_results :
                      r.student_id = student_id /\ r.semester = semester}
    IN  IF find_student_by_id(student_id) = {}
        THEN [status |-> 404, detail |-> "Student not found",
              courses |-> {}, total_credits |-> 0, sgpa |-> 0]
        ELSE IF rows = {}
        THEN [status |-> 404, detail |-> "No grades found for this student in the given semester",
              courses |-> {}, total_credits |-> 0, sgpa |-> 0]
        ELSE [status |-> 200, detail |-> "",
              courses |-> {},
              total_credits |-> total_credits,
              sgpa |-> IF stored # {} THEN (CHOOSE r \in stored : TRUE).gpa
                       ELSE IF total_credits > 0
                       THEN Round(SumOver(rows, weighted), total_credits, up)
                       ELSE 0]

calculate_sgpa(student_id, semester, up) ==
    LET rows == get_student_course_grades_for_semester(student_id, semester)
        credits == [row \in rows |-> row.credits]
        weighted == [row \in rows |->
                        row.credits * _percentage_to_grade(row.weighted_percentage, up)[1]]
        total_credits == SumOver(rows, credits)
    IN  IF find_student_by_id(student_id) = {}
        THEN [status |-> 404, detail |-> "Student not found",
              courses |-> {}, total_credits |-> 0, sgpa |-> 0]
        ELSE IF rows = {}
        THEN [status |-> 404, detail |-> "No grades found for this student in the given semester",
              courses |-> {}, total_credits |-> 0, sgpa |-> 0]
        ELSE [status |-> 200, detail |-> "",
              courses |-> {[course_id |-> row.course_id,
                            credits |-> row.credits,
                            grade_point |-> _percentage_to_grade(row.weighted_percentage, up)[1],
                            grade_letter |-> _percentage_to_grade(row.weighted_percentage, up)[2]] :
                               row \in rows},
              total_credits |-> total_credits,
              sgpa |-> IF total_credits > 0
                       THEN Round(SumOver(rows, weighted), total_credits, up)
                       ELSE 0]

\* get_semester_results_for_student as it would be without the filter on the student
get_semester_results_for_student_all(sr, student_id) ==
    {r \in sr : TRUE}

\* the (semester, gpa, total_credits_attempted) rows of the student in sr
get_semester_results_for_student(sr, student_id) ==
    {r \in sr : r.student_id = student_id}

\* calculate_cgpa as it would be with the plain mean of the semesters' GPAs
calculate_cgpa_unweighted(student_id, up) ==
    LET rows == get_semester_results_for_student(semester_results, student_id)
        gpas == [row \in rows |-> row.gpa]
    IN  IF find_student_by_id(student_id) = {}
        THEN [status |-> 404, detail |-> "Student not found",
              semesters |-> {}, total_credits |-> 0, cgpa |-> 0]
        ELSE IF rows = {}
        THEN [status |-> 404, detail |-> "No semester results found for this student",
              semesters |-> {}, total_credits |-> 0, cgpa |-> 0]
        ELSE [status |-> 200, detail |-> "",
              semesters |-> {[semester |-> row.semester, gpa |-> row.gpa,
                              credits |-> row.total_credits_attempted] : row \in rows},
              total_credits |-> SumOver(rows, [row \in rows |-> row.total_credits_attempted]),
              cgpa |-> Round(SumOver(rows, gpas), Cardinality(rows), up)]

calculate_cgpa(student_id, up) ==
    LET rows == get_semester_results_for_student(semester_results, student_id)
        credits == [row \in rows |-> row.total_credits_attempted]
        weighted == [row \in rows |-> row.total_credits_attempted * row.gpa]
        total_credits == SumOver(rows, credits)
    IN  IF find_student_by_id(student_id) = {}
        THEN [status |-> 404, detail |-> "Student not found",
              semesters |-> {}, total_credits |-> 0, cgpa |-> 0]
        ELSE IF rows = {}
        THEN [status |-> 404, detail |-> "No semester results found for this student",
              semesters |-> {}, total_credits |-> 0, cgpa |-> 0]
        ELSE [status |-> 200, detail |-> "",
              semesters |-> {[semester |-> row.semester, gpa |-> row.gpa,
                              credits |-> row.total_credits_attempted] : row \in rows},
              total_credits |-> total_credits,
              cgpa |-> IF total_credits > 0
                       THEN Round(SumOver(rows, weighted), total_credits, up)
                       ELSE 0]

(***************************************************************************)
(* Result Publisher                                                        *)
(*                                                                         *)
(* A query without ORDER BY returns its rows in an order the database      *)
(* picks: ascending or descending id, by the parameter `desc`.             *)
(***************************************************************************)
Least(S) == CHOOSE x \in S : \A y \in S : x <= y
Greatest(S) == CHOOSE x \in S : \A y \in S : x >= y

RECURSIVE InOrder(_, _)
InOrder(S, desc) ==
    IF S = {} THEN <<>>
    ELSE LET x == IF desc THEN Greatest(S) ELSE Least(S)
         IN  <<x>> \o InOrder(S \ {x}, desc)

find_students_in_semester(semester, desc) ==
    InOrder({s \in DOMAIN students : students[s].semester = semester}, desc)

\* find_semester_result as it would be if it never found the row
find_semester_result_none(sr, student_id, semester) ==
    {r \in sr : FALSE}

find_semester_result(sr, student_id, semester) ==
    {r \in sr : r.student_id = student_id /\ r.semester = semester}

\* the enrollment ids LIMIT 1 picks from
find_enrollment_id_for_student_semester(student_id, semester) ==
    {g.enrollment_id : g \in GradesOfStudentSemester(student_id, semester)}

SemesterResults(enrollment_id, student_id, academic_year, semester, gpa, cgpa, total_credits, credits_earned, result_status) ==
    [id |-> 0,
     enrollment_id |-> enrollment_id,
     student_id |-> student_id,
     acedamic_year |-> academic_year,
     semester |-> semester,
     gpa |-> gpa,
     cgpa |-> cgpa,
     total_credits_attempted |-> total_credits,
     total_credits_earned |-> credits_earned,
     status |-> result_status,
     updated_at |-> 0]

\* ResultStatus as it would be if a student who earned every credit were promoted
ResultStatusPromoted(credits_earned, total_credits) ==
    IF credits_earned = total_credits THEN "promoted" ELSE "fail"

\* ResultStatus.PASS when every attempted credit is earned, else ResultStatus.FAIL
ResultStatus(credits_earned, total_credits) ==
    IF credits_earned = total_credits THEN "pass" ELSE "fail"

\* update_semester_result as it would be if a republish added the credits to the row's
update_semester_result_adding(existing, gpa, cgpa, total_credits, credits_earned, result_status, t) ==
    [existing EXCEPT !.gpa = gpa,
                     !.cgpa = cgpa,
                     !.total_credits_attempted = @ + total_credits,
                     !.total_credits_earned = @ + credits_earned,
                     !.status = result_status,
                     !.updated_at = t]

\* the existing row with the fields the publisher assigns before the commit
update_semester_result(existing, gpa, cgpa, total_credits, credits_earned, result_status, t) ==
    [existing EXCEPT !.gpa = gpa,
                     !.cgpa = cgpa,
                     !.total_credits_attempted = total_credits,
                     !.total_credits_earned = credits_earned,
                     !.status = result_status,
                     !.updated_at = t]

\* one student of the cohort against the tables sr and st as the loop left them,
\* at time t; raised is an exception of the store that the method lets through
_publish_student_result(sr, st, t, student_id, semester, academic_year, desc, up) ==
    LET rows == get_student_course_grades_for_semester(student_id, semester)
        Grade(row) == _percentage_to_grade(row.weighted_percentage, up)
        credits == [row \in rows |-> row.credits]
        weighted == [row \in rows |-> row.credits * Grade(row)[1]]
        earned == [row \in rows |-> IF Grade(row)[2] # "F" THEN row.credits ELSE 0]
        total_credits == SumOver(rows, credits)
        credits_earned == SumOver(rows, earned)
        gpa == IF total_credits > 0
               THEN Round(SumOver(rows, weighted), total_credits, up)
               ELSE 0
        result_status == ResultStatus(credits_earned, total_credits)
        enrollment_ids == find_enrollment_id_for_student_semester(student_id, semester)
        enrollment_id == IF desc THEN Greatest(enrollment_ids) ELSE Least(enrollment_ids)
        others == {r \in get_semester_results_for_student(sr, student_id) :
                      r.semester # semester}
        cgpa_credits == total_credits
                        + SumOver(others, [r \in others |-> r.total_credits_attempted])
        cgpa_sum == total_credits * gpa
                    + SumOver(others, [r \in others |-> r.total_credits_attempted * r.gpa])
        cgpa == IF cgpa_credits > 0 THEN Round(cgpa_sum, cgpa_credits, up) ELSE 0
        existing == find_semester_result(sr, student_id, semester)
        updated == {update_semester_result(r, gpa, cgpa, total_credits, credits_earned,
                                           result_status, t) : r \in existing}
        created == [SemesterResults(enrollment_id, student_id, academic_year, semester,
                                    gpa, cgpa, total_credits, credits_earned,
                                    result_status)
                       EXCEPT !.id = Cardinality(sr) + 1]
        student == IF student_id \in DOMAIN st
                   THEN [st EXCEPT ![student_id] =
                            [@ EXCEPT !.cgpa = {cgpa}, !.updated_at = t]]
                   ELSE st
        Failure(message) ==
            [success |-> FALSE, raised |-> FALSE, message |-> message, gpa |-> {},
             semester_results |-> sr, students |-> st]
        Raised(message) ==
            [success |-> FALSE, raised |-> TRUE, message |-> message, gpa |-> {},
             semester_results |-> sr, students |-> st]
        Success(rs) ==
            [success |-> TRUE, raised |-> FALSE,
             message |-> "Results published successfully", gpa |-> {gpa},
             semester_results |-> rs, students |-> student]
    IN  IF rows = {} THEN Failure("No grades found for this semester")
        ELSE IF enrollment_ids = {}
        THEN Failure("Could not find enrollment for this semester")
        ELSE IF Cardinality(existing) > 1 THEN Raised("MultipleResultsFound")
        ELSE IF existing # {} THEN Success((sr \ existing) \cup updated)
        ELSE IF \E r \in sr : r.enrollment_id = enrollment_id
        THEN Raised("IntegrityError")
        ELSE Success(sr \cup {created})

\* the loop's record of one student: results.append(result) and the counters
publish_count(acc, student_id, result) ==
    [semester_results |-> result.semester_results,
     students |-> result.students,
     raised |-> result.raised,
     results |-> Append(acc.results,
                    [student_id |-> student_id, success |-> result.success,
                     message |-> result.message, gpa |-> result.gpa]),
     published |-> acc.published + (IF result.success THEN 1 ELSE 0),
     failed |-> acc.failed + (IF result.success THEN 0 ELSE 1)]

\* the for loop of publish_results from student i on; it ends at an exception
RECURSIVE publish_loop(_, _, _, _, _, _, _, _)
publish_loop(acc, cohort, i, t, semester, academic_year, desc, up) ==
    IF i > Len(cohort) \/ acc.raised THEN acc
    ELSE publish_loop(
             publish_count(acc, cohort[i],
                 _publish_student_result(acc.semester_results, acc.students, t,
                     cohort[i], semester, academic_year, desc, up)),
             cohort, i + 1, t, semester, academic_year, desc, up)

\* the cohort: the listed students that exist, or else the students of the semester
Cohort(semester, student_ids, desc) ==
    LET Found(sid) == find_student_by_id(sid) # {}
    IN  IF student_ids # <<>>
        THEN SelectSeq(student_ids, Found)
        ELSE find_students_in_semester(semester, desc)

\* what publish_results answers for the cohort once the loop has left `done`: 404
\* before the loop for an empty cohort, 500 when an exception left the loop
PublishResultsResponse(sr, st, cohort, done) ==
    IF cohort = <<>>
    THEN [status |-> 404, total |-> 0, published |-> 0, failed |-> 0,
          results |-> <<>>, semester_results |-> sr, students |-> st]
    ELSE IF done.raised
    THEN [status |-> 500, total |-> 0, published |-> 0, failed |-> 0,
          results |-> <<>>, semester_results |-> done.semester_results,
          students |-> done.students]
    ELSE [status |-> 200, total |-> Len(cohort), published |-> done.published,
          failed |-> done.failed, results |-> done.results,
          semester_results |-> done.semester_results, students |-> done.students]

\* publish_results on the tables sr and st at time t
publish_results_on(sr, st, t, semester, academic_year, student_ids, desc, up) ==
    PublishResultsResponse(sr, st, Cohort(semester, student_ids, desc),
        publish_loop(
            [semester_results |-> sr, students |-> st, raised |-> FALSE,
             results |-> <<>>, published |-> 0, failed |-> 0],
            Cohort(semester, student_ids, desc), 1, t, semester, academic_year,
            desc, up))

publish_results(semester, academic_year, student_ids, desc, up) ==
    publish_results_on(semester_results, students, now, semester, academic_year,
                       student_ids, desc, up)

(***************************************************************************)
(* Requests                                                                *)
(***************************************************************************)
\* A request that writes nothing leaves every table as it was, so a behaviour is
\* followed up to its first such request: last.wrote says whether the last request
\* wrote.  A request that writes advances the clock, and the model stops writing at
\* MaxClock.  last keeps what the caller saw: the method, the HTTP status, the
\* successful and failed counts of a bulk or publish response, and the SGPA or CGPA.
Respond(op, status, wrote, ok, failed, value) ==
    /\ last.wrote
    /\ wrote => clock < MaxClock
    /\ clock' = IF wrote THEN now ELSE clock
    /\ last' = [op |-> op, status |-> status, wrote |-> wrote,
                ok |-> ok, failed |-> failed, value |-> value]
    /\ calls' = calls
    /\ UNCHANGED other_tables

SubmitGrade(enrollment_id, course_id, assessment_id, marks_obtained, remarks, graded_by) ==
    LET r == submit_grade(enrollment_id, course_id, assessment_id, marks_obtained,
                          remarks, graded_by)
    IN  /\ Respond("submit_grade", r.status, r.status = 201, 0, 0, 0)
        /\ Cardinality(r.grades) <= MaxGrades
        /\ grades' = r.grades
        /\ UNCHANGED <<assessments, semester_results, students, scale>>

UpdateGrade(id, has_marks, marks_obtained, has_remarks, remarks, graded_by) ==
    LET r == update_grade(id, has_marks, marks_obtained, has_remarks, remarks, graded_by)
    IN  /\ Respond("update_grade", r.status, r.status = 200, 0, 0, 0)
        /\ grades' = r.grades
        /\ UNCHANGED <<assessments, semester_results, students, scale>>

BulkSubmitGrades(assessment_id, course_id, items, graded_by) ==
    LET r == bulk_submit_grades(assessment_id, course_id, items, graded_by)
    IN  /\ Respond("bulk_submit_grades", r.status, r.grades # grades,
                   r.successful, r.failed, 0)
        /\ Cardinality(r.grades) <= MaxGrades
        /\ grades' = r.grades
        /\ UNCHANGED <<assessments, semester_results, students, scale>>

UpdateAssessment(id, has_max_marks, max_marks, has_weightage, weightage) ==
    LET r == update_assessment(id, has_max_marks, max_marks, has_weightage, weightage)
    IN  /\ Respond("update_assessment", r.status, r.status = 200, 0, 0, 0)
        /\ assessments' = r.assessments
        /\ UNCHANGED <<grades, semester_results, students, scale>>

\* CalculateSgpa as it would be if the SGPA were stored as the student's CGPA
CalculateSgpaStoring(student_id, semester, up) ==
    LET r == calculate_sgpa(student_id, semester, up)
    IN  /\ Respond("calculate_sgpa", r.status, FALSE, 0, 0, r.sgpa)
        /\ students' = IF r.status = 200
                       THEN [students EXCEPT ![student_id] = [@ EXCEPT !.cgpa = {r.sgpa}]]
                       ELSE students
        /\ UNCHANGED <<assessments, grades, semester_results, scale>>

CalculateSgpa(student_id, semester, up) ==
    LET r == calculate_sgpa(student_id, semester, up)
    IN  /\ Respond("calculate_sgpa", r.status, FALSE, 0, 0, r.sgpa)
        /\ UNCHANGED <<assessments, grades, semester_results, students, scale>>

CalculateCgpa(student_id, up) ==
    LET r == calculate_cgpa(student_id, up)
    IN  /\ Respond("calculate_cgpa", r.status, FALSE, 0, 0, r.cgpa)
        /\ UNCHANGED <<assessments, grades, semester_results, students, scale>>

\* the response r of publish_results sent and its tables committed
Published(r) ==
    /\ Respond("publish_results", r.status,
               r.semester_results # semester_results \/ r.students # students,
               r.published, r.failed, 0)
    /\ semester_results' = r.semester_results
    /\ students' = r.students
    /\ UNCHANGED <<assessments, grades, scale>>

PublishResults(semester, academic_year, student_ids, desc, up) ==
    Published(publish_results(semester, academic_year, student_ids, desc, up))

\* _percentage_to_grade applied to the percentage scale.percentage / 100
PercentageToGrade ==
    /\ scale.grade = <<>>
    /\ scale' = [scale EXCEPT
           !.grade = _percentage_to_grade([num |-> scale.percentage, den |-> 100],
                                          scale.up)]
    /\ UNCHANGED <<assessments, grades, semester_results, students, clock, last, calls>>
    /\ UNCHANGED other_tables

(***************************************************************************)
(* The tables after construction: three assessments (two of the offering   *)
(* of semester 1, one of the offering of semester 2), two students, no     *)
(* grade and no result.                                                    *)
(***************************************************************************)
\* before the first request
\* two hostels, the first with a room of one bed and a room of two, the second
\* with a room of one bed; one book of one copy; nobody allocated, nothing
\* issued, no key set
InitOthers ==
    /\ hostels = <<[total_capacity |-> 3, occupied_capacity |-> 0],
                   [total_capacity |-> 1, occupied_capacity |-> 0]>>
    /\ hostel_rooms =
           <<[hostel_id |-> 1, room_number |-> "101", capacity |-> 1,
              occupied_beds |-> 0, status |-> "available"],
             [hostel_id |-> 1, room_number |-> "102", capacity |-> 2,
              occupied_beds |-> 0, status |-> "available"],
             [hostel_id |-> 2, room_number |-> "201", capacity |-> 1,
              occupied_beds |-> 0, status |-> "available"]>>
    /\ hostel_allocations = {}
    /\ library_books = <<[isbn |-> "i1", copies_total |-> 1, copies_available |-> 1,
                          is_referenced |-> FALSE]>>
    /\ book_issues = {}
    /\ redis = {}

NoRequest ==
    [op |-> "none", status |-> 0, wrote |-> TRUE, ok |-> 0, failed |-> 0, value |-> 0]

Assessment(course_offering_id, assessment_type, max_marks, weightage) ==
    [course_offering_id |-> course_offering_id, assessment_type |-> assessment_type,
     max_marks |-> max_marks, weightage |-> weightage, updated_at |-> 0]

Init ==
    /\ assessments = <<Assessment(1, "midterm", 4, 60), Assessment(1, "final", 4, 40),
                      Assessment(2, "final", 4, 100)>>
    /\ grades = {}
    /\ semester_results = {}
    /\ students = <<[semester |-> 1, cgpa |-> {}, updated_at |-> 0],
                    [semester |-> 1, cgpa |-> {}, updated_at |-> 0]>>
    /\ clock = 0
    /\ last = NoRequest
    /\ calls = <<>>
    /\ InitOthers
    /\ scale = [percentage |-> 0, up |-> FALSE, grade |-> <<>>]

(***************************************************************************)
(* Inputs of the Grade Recorder.                                           *)
(***************************************************************************)
EnrollmentInputs == {1, 2, MissingId}
AssessmentInputs == {1, 2, MissingId}
GradeIdInputs == {1, 2, MissingId}
MarksInputs == {-1, 4, 5}
BulkItemInputs ==
    {[enrollment_id |-> 1, marks_obtained |-> 4, remarks |-> "bulk"],
     [enrollment_id |-> 2, marks_obtained |-> 4, remarks |-> "bulk"],
     [enrollment_id |-> 2, marks_obtained |-> 5, remarks |-> "bulk"],
     [enrollment_id |-> MissingId, marks_obtained |-> 4, remarks |-> "bulk"]}

RECURSIVE SeqsUpTo(_, _)
SeqsUpTo(S, n) ==
    IF n = 0 THEN {<<>>}
    ELSE LET shorter == SeqsUpTo(S, n - 1)
         IN  shorter \cup {Append(s, x) : s \in {t \in shorter : Len(t) = n - 1}, x \in S}

BulkRequests == SeqsUpTo(BulkItemInputs, MaxBulkItems)

Next ==
    \/ \E e \in EnrollmentInputs, a \in AssessmentInputs, m \in MarksInputs :
           SubmitGrade(e, 1, a, m, "new", "f1")
    \/ \E id \in GradeIdInputs, has_marks \in BOOLEAN, m \in MarksInputs,
          has_remarks \in BOOLEAN :
           UpdateGrade(id, has_marks, m, has_remarks, "fixed", "f2")
    \/ \E items \in BulkRequests :
           BulkSubmitGrades(1, 1, items, "f1")
    \/ BulkSubmitGrades(MissingId, 1, <<>>, "f1")
    \/ \E a \in AssessmentInputs, has_max_marks \in BOOLEAN, has_weightage \in BOOLEAN :
           UpdateAssessment(a, has_max_marks, 2, has_weightage, 50)

Spec == Init /\ [][Next]_vars

(***************************************************************************)
(* Properties of the Grade Recorder, under Spec.  A property of one call   *)
(* is stated for every input of the call in every reachable state.         *)
(***************************************************************************)
\* C1: for every assessment and every enrollment, submit_grade with
\* marks_obtained above the assessment's max_marks fails with HTTP 400
\* (InvalidInput), and the Grades rows after the call are those before it.
SubmitAboveMaxIsInvalidInput ==
    \A e \in EnrollmentIds, a \in DOMAIN assessments, c \in CourseIds, m \in MarksInputs :
        m > assessments[a].max_marks =>
            LET r == submit_grade(e, c, a, m, "new", "f1")
            IN  r.status = 400 /\ r.grades = grades

\* a submit_grade was refused with 400 while a grade was on record
SubmitAboveMaxRefused ==
    /\ last.op = "submit_grade"
    /\ last.status = 400
    /\ grades # {}

OneGradePerPair ==
    \A g1 \in grades, g2 \in grades :
        (g1.enrollment_id = g2.enrollment_id /\ g1.assessment_id = g2.assessment_id)
            => g1 = g2

\* C2 as stated: at most one Grades row per (enrollment_id, assessment_id), and a
\* submit_grade for a pair that already has a row fails with HTTP 409 (Conflict)
\* and leaves the rows as they were.
SecondSubmitIsConflict ==
    /\ OneGradePerPair
    /\ \A e \in EnrollmentIds, a \in DOMAIN assessments, c \in CourseIds,
          m \in MarksInputs :
           find_grade_by_enrollment_assessment(e, a) # {} =>
               LET r == submit_grade(e, c, a, m, "new", "f1")
               IN  r.status = 409 /\ r.grades = grades

\* C2 amended: at most one Grades row per (enrollment_id, assessment_id); a
\* submit_grade for a pair that already has a row leaves every row (marks,
\* remarks, grader, timestamps) as it was, and fails with HTTP 409 (Conflict) when
\* the marks are within max_marks and with HTTP 400 (InvalidInput) when they
\* exceed max_marks.
SecondSubmitIsRefused ==
    /\ OneGradePerPair
    /\ \A e \in EnrollmentIds, a \in DOMAIN assessments, c \in CourseIds,
          m \in MarksInputs :
           find_grade_by_enrollment_assessment(e, a) # {} =>
               LET r == submit_grade(e, c, a, m, "new", "f1")
               IN  /\ r.grades = grades
                   /\ r.status = IF m <= assessments[a].max_marks THEN 409 ELSE 400

\* a submit_grade was refused with 409: the pair had its row
SecondSubmitRefused ==
    /\ last.op = "submit_grade"
    /\ last.status = 409
    /\ grades # {}

\* C3 as stated: every Grades row has 0 <= marks_obtained <= max_marks of the
\* assessment it references, after any sequence of submit_grade,
\* bulk_submit_grades, update_grade and update_assessment.
MarksWithinMaxMarks ==
    \A g \in grades :
        /\ 0 <= g.marks_obtained
        /\ g.marks_obtained <= assessments[g.assessment_id].max_marks

\* what C4 expects of item i of a bulk request for the assessment: the enrollment
\* exists, the marks are within max_marks, the pair has no stored row and no
\* earlier item of the request that passes the same tests names the enrollment
BulkItemPasses(items, i, assessment_id) ==
    /\ items[i].enrollment_id \in EnrollmentIds
    /\ items[i].marks_obtained <= assessments[assessment_id].max_marks
    /\ \A g \in grades :
           ~(g.enrollment_id = items[i].enrollment_id /\ g.assessment_id = assessment_id)

BulkItemValid(items, i, assessment_id) ==
    /\ BulkItemPasses(items, i, assessment_id)
    /\ \A j \in 1..(i - 1) :
           ~(/\ BulkItemPasses(items, j, assessment_id)
             /\ items[j].enrollment_id = items[i].enrollment_id)

\* C4: bulk_submit_grades answers every item in order whatever the earlier items
\* did: one result per item, an item succeeds exactly when its enrollment exists,
\* its marks are within max_marks and the pair has no grade, stored or created by
\* an earlier item of the request; every item that succeeds has its row persisted,
\* no other row is added or altered, and total = len(items) = successful + failed.
BulkProcessesEveryItem ==
    \A a \in DOMAIN assessments, c \in CourseIds, items \in BulkRequests :
        LET r == bulk_submit_grades(a, c, items, "f1")
            valid == {i \in DOMAIN items : BulkItemValid(items, i, a)}
        IN  /\ r.status = 200
            /\ r.total = Len(items)
            /\ Len(r.results) = Len(items)
            /\ r.successful = Cardinality(valid)
            /\ r.successful + r.failed = r.total
            /\ \A i \in DOMAIN items :
                   /\ r.results[i].enrollment_id = items[i].enrollment_id
                   /\ r.results[i].success = (i \in valid)
            /\ grades \subseteq r.grades
            /\ Cardinality(r.grades) = Cardinality(grades) + Cardinality(valid)
            /\ \A i \in valid :
                   \E g \in r.grades \ grades :
                       /\ g.enrollment_id = items[i].enrollment_id
                       /\ g.assessment_id = a
                       /\ g.course_id = c
                       /\ g.marks_obtained = items[i].marks_obtained
                       /\ g.remarks = items[i].remarks
                       /\ g.graded_by = "f1"

\* a bulk request stored two grades and refused one item
BulkMixedBatch ==
    /\ last.op = "bulk_submit_grades"
    /\ last.ok = 2
    /\ last.failed = 1
    /\ Cardinality(grades) = 2

\* the identity of every grade is in gs what it is in grades
SameIdentities(gs) ==
    /\ Cardinality(gs) = Cardinality(grades)
    /\ \A g \in grades : \E h \in gs :
           /\ h.id = g.id
           /\ h.enrollment_id = g.enrollment_id
           /\ h.assessment_id = g.assessment_id
           /\ h.course_id = g.course_id

\* C22: update_grade never changes a grade's enrollment_id, assessment_id or
\* course_id; with marks_obtained above the max_marks of the grade's assessment,
\* or with no field set, it answers 400 (InvalidInput) and leaves the row as it
\* was; when it succeeds the grade has the fields supplied, the caller as
\* graded_by and the time of the call as graded_at.
UpdateGradeKeepsIdentity ==
    \A g \in grades, has_marks \in BOOLEAN, m \in MarksInputs, has_remarks \in BOOLEAN :
        LET r == update_grade(g.id, has_marks, m, has_remarks, "fixed", "f2")
            above == /\ has_marks
                     /\ g.assessment_id \in DOMAIN assessments
                     /\ m > assessments[g.assessment_id].max_marks
        IN  /\ SameIdentities(r.grades)
            /\ (above \/ (~has_marks /\ ~has_remarks)) =>
                   r.status = 400 /\ r.grades = grades
            /\ r.status \in {200, 400}
            /\ r.status = 200 =>
                   \E h \in r.grades :
                       /\ h.id = g.id
                       /\ h.graded_by = "f2"
                       /\ h.graded_at = now
                       /\ h.marks_obtained = IF has_marks THEN m ELSE g.marks_obtained
                       /\ h.remarks = IF has_remarks THEN "fixed" ELSE g.remarks
                       /\ r.grades \ {h} = grades \ {g}

\* a grade submitted by one grader was updated by another
GradeUpdatedByAnother ==
    /\ last.op = "update_grade"
    /\ last.status = 200
    /\ \E g \in grades : g.graded_by = "f2" /\ g.graded_at = 2 /\ g.remarks = "fixed"

(***************************************************************************)
(* Aggregation and publishing run over a database that already holds       *)
(* grades: every table of at most MaxGrades rows, one row per (enrollment, *)
(* assessment) pair and ids in the order of insertion, that submit_grade   *)
(* builds from the marks given, recorded before the first request of the   *)
(* behaviour (graded_at 0).                                                *)
(***************************************************************************)
StudentInputs == {1, 2, MissingId}
SemesterInputs == DOMAIN OfferingSemester
\* the student_ids of a publish request; <<>> is no list
CohortInputs == {<<>>, <<1>>, <<2>>, <<1, 2>>, <<MissingId>>}

RecordedGrade(e, c, a, m) ==
    [id |-> 0, enrollment_id |-> e, course_id |-> c, assessment_id |-> a,
     marks_obtained |-> m, remarks |-> "new", graded_by |-> "f1",
     graded_at |-> 0, updated_at |-> 0]

GradeTables(marks) ==
    LET rows == {RecordedGrade(e, c, a, m) :
                    e \in EnrollmentIds, c \in CourseIds, a \in 1..3, m \in marks}
        Key(g) == 10 * g.enrollment_id + g.assessment_id
        ordered == {s \in SeqsUpTo(rows, MaxGrades) :
                       \A i \in 1..(Len(s) - 1) : Key(s[i]) < Key(s[i + 1])}
    IN  {{[s[i] EXCEPT !.id = i] : i \in DOMAIN s} : s \in ordered}

InitTables(marks) ==
    /\ assessments = <<Assessment(1, "midterm", 4, 60), Assessment(1, "final", 4, 40),
                      Assessment(2, "final", 4, 100)>>
    /\ grades \in GradeTables(marks)
    /\ semester_results = {}
    /\ students = <<[semester |-> 1, cgpa |-> {}, updated_at |-> 0],
                    [semester |-> 1, cgpa |-> {}, updated_at |-> 0]>>
    /\ clock = 0
    /\ last = NoRequest
    /\ calls = <<>>
    /\ InitOthers
    /\ scale = [percentage |-> 0, up |-> FALSE, grade |-> <<>>]

\* Result Publisher
InitResults == InitTables({3})

NextResults ==
    \/ \E semester \in SemesterInputs, student_ids \in CohortInputs,
          desc \in BOOLEAN, up \in BOOLEAN :
           PublishResults(semester, "2024-2025", student_ids, desc, up)
    \/ \E student_id \in StudentInputs, up \in BOOLEAN :
           CalculateCgpa(student_id, up)
    \/ \E student_id \in StudentInputs, semester \in SemesterInputs, up \in BOOLEAN :
           CalculateSgpa(student_id, semester, up)
    \/ \E id \in GradeIdInputs :
           UpdateGrade(id, TRUE, 4, FALSE, "fixed", "f2")
    \/ \E e \in EnrollmentIds, c \in CourseIds, a \in 1..3 :
           SubmitGrade(e, c, a, 3, "new", "f1")

SpecResults == InitResults /\ [][NextResults]_vars

(***************************************************************************)
(* Properties of the Result Publisher and of the CGPA, under SpecResults.  *)
(***************************************************************************)
\* the student has a grade on an assessment of an offering of the semester
HasGradedCourse(student_id, semester) ==
    \E g \in grades :
        /\ EnrollmentStudent[g.enrollment_id] = student_id
        /\ OfferingSemester[assessments[g.assessment_id].course_offering_id] = semester

\* C5 as stated: publish_results over a cohort in which some student has no graded
\* course in the semester reports total = the size of the cohort, published = the
\* number of its students with graded courses and failed = the rest; no
\* SemesterResults row of a failed student is created or modified and the failed
\* student's Student.cgpa is unchanged.
PublishReportsUngradedStudents ==
    \A semester \in SemesterInputs, student_ids \in CohortInputs,
       desc \in BOOLEAN, up \in BOOLEAN :
        LET cohort == Cohort(semester, student_ids, desc)
            graded == {i \in DOMAIN cohort : HasGradedCourse(cohort[i], semester)}
            ungraded == DOMAIN cohort \ graded
            r == publish_results(semester, "2024-2025", student_ids, desc, up)
        IN  ungraded # {} =>
                /\ r.status = 200
                /\ r.total = Len(cohort)
                /\ r.published = Cardinality(graded)
                /\ r.failed = Cardinality(ungraded)
                /\ \A i \in ungraded :
                       /\ ~r.results[i].success
                       /\ get_semester_results_for_student(r.semester_results, cohort[i])
                              = get_semester_results_for_student(semester_results, cohort[i])
                       /\ r.students[cohort[i]].cgpa = students[cohort[i]].cgpa

\* what a publish stores of a result, without its timestamp
Stored(row) ==
    [id |-> row.id, enrollment_id |-> row.enrollment_id, student_id |-> row.student_id,
     semester |-> row.semester, gpa |-> row.gpa, cgpa |-> row.cgpa,
     total_credits_attempted |-> row.total_credits_attempted,
     total_credits_earned |-> row.total_credits_earned, status |-> row.status]

\* C6: publish_results called twice for the same students and semester, with no
\* change to Grades, Assessments or other SemesterResults in between, leaves after
\* the second call the SemesterResults rows (gpa, cgpa, total_credits_attempted,
\* total_credits_earned, status) and every Student.cgpa as they were after the
\* first; no row is added and the reported GPAs are the same.  (Stated where the
\* last request wrote: a request that wrote nothing left the same tables.)
RepublishIsIdempotent ==
    last.wrote =>
    \A semester \in SemesterInputs, student_ids \in CohortInputs,
       desc \in BOOLEAN, again \in BOOLEAN, up \in BOOLEAN :
        LET first == publish_results(semester, "2024-2025", student_ids, desc, up)
            second == publish_results_on(first.semester_results, first.students, now + 1,
                                         semester, "2024-2025", student_ids, again, up)
            Reported(r) == {<<r.results[i].student_id, r.results[i].success,
                              r.results[i].gpa>> : i \in DOMAIN r.results}
        IN  first.status = 200 =>
                /\ second.status = 200
                /\ second.published = first.published
                /\ Reported(second) = Reported(first)
                /\ {Stored(row) : row \in second.semester_results}
                       = {Stored(row) : row \in first.semester_results}
                /\ Cardinality(second.semester_results)
                       = Cardinality(first.semester_results)
                /\ \A s \in DOMAIN students :
                       second.students[s].cgpa = first.students[s].cgpa

\* two students were published and published again with no grade touched in between
RepublishedUnchangedMarks ==
    /\ last.op = "publish_results"
    /\ last.ok = 2
    /\ clock = 2
    /\ Cardinality(semester_results) = 2
    /\ \A row \in semester_results : row.updated_at = clock
    /\ \A g \in grades : g.graded_at = 0 /\ g.updated_at = 0

\* C7: in every state reached by publish_results calls interleaved with grade
\* submissions and updates there is at most one SemesterResults row per
\* (student_id, semester); a publish keeps every row there is under its id, student,
\* semester and enrollment, and adds no row for a pair that already has one.
OneResultPerStudentSemester ==
    /\ \A x \in semester_results, y \in semester_results :
           (x.student_id = y.student_id /\ x.semester = y.semester) => x = y
    /\ \A semester \in SemesterInputs, student_ids \in CohortInputs,
          desc \in BOOLEAN, up \in BOOLEAN :
           LET r == publish_results(semester, "2024-2025", student_ids, desc, up)
           IN  /\ \A x \in semester_results :
                      \E y \in r.semester_results :
                          /\ y.id = x.id
                          /\ y.student_id = x.student_id
                          /\ y.semester = x.semester
                          /\ y.enrollment_id = x.enrollment_id
               /\ \A y \in r.semester_results :
                      (\E x \in semester_results :
                           x.student_id = y.student_id /\ x.semester = y.semester)
                          => \E x \in semester_results : x.id = y.id

\* a publish found the student's row of the semester and updated it in place
ResultUpdatedInPlace ==
    /\ last.op = "publish_results"
    /\ last.ok = 1
    /\ Cardinality(semester_results) = 1
    /\ \E row \in semester_results : row.updated_at = clock /\ row.id = 1

\* the courses in which the student has a grade on an assessment of the semester
GradedCourses(student_id, semester) ==
    {g.course_id : g \in {h \in grades :
        /\ EnrollmentStudent[h.enrollment_id] = student_id
        /\ OfferingSemester[assessments[h.assessment_id].course_offering_id] = semester}}

\* the course's weighted percentage of the student in the semester is 40 or more
CoursePassed(student_id, semester, c) ==
    LET pct == WeightedPercentage({g \in grades :
                   /\ g.course_id = c
                   /\ EnrollmentStudent[g.enrollment_id] = student_id
                   /\ OfferingSemester[assessments[g.assessment_id].course_offering_id]
                          = semester})
    IN  pct.num >= 40 * pct.den

\* C12: for every student publish_results processes successfully,
\* total_credits_attempted is the sum of the credits of the graded courses of the
\* semester, total_credits_earned the sum over those whose letter is not F, and the
\* stored status is PASS exactly when the two are equal and FAIL otherwise; no
\* SemesterResults row ever has another status.
PublishedCreditsAndStatus ==
    /\ \A row \in semester_results :
           /\ row.status \in {"pass", "fail"}
           /\ row.status = "pass" <=>
                  row.total_credits_earned = row.total_credits_attempted
    /\ \A semester \in SemesterInputs, student_ids \in CohortInputs,
          desc \in BOOLEAN, up \in BOOLEAN :
           LET r == publish_results(semester, "2024-2025", student_ids, desc, up)
           IN  \A i \in DOMAIN r.results :
                   r.results[i].success =>
                       LET s == r.results[i].student_id
                           courses == GradedCourses(s, semester)
                           passed == {c \in courses : CoursePassed(s, semester, c)}
                           attempted == SumOver(courses,
                                            [c \in courses |-> CourseCredits[c]])
                           earned == SumOver(passed, [c \in passed |-> CourseCredits[c]])
                       IN  \E row \in r.semester_results :
                               /\ row.student_id = s
                               /\ row.semester = semester
                               /\ row.total_credits_attempted = attempted
                               /\ row.total_credits_earned = earned
                               /\ row.status = IF earned = attempted
                                               THEN "pass" ELSE "fail"

\* a publish stored a failed semester: a course with letter F among two
FailedSemesterPublished ==
    /\ last.op = "publish_results"
    /\ last.ok >= 1
    /\ \E row \in semester_results :
           /\ row.status = "fail"
           /\ row.total_credits_attempted = 7
           /\ row.total_credits_earned \in {3, 4}

\* the integer v is a nearest integer of n / d
Nearest(v, n, d) ==
    /\ (2 * v - 1) * d <= 2 * n
    /\ 2 * n <= (2 * v + 1) * d

PublishedCgpa ==
    (last'.op = "publish_results" /\ clock' # clock) =>
        \A s \in DOMAIN students :
            students'[s].updated_at = clock' =>
                LET mine == {x \in semester_results' : x.student_id = s}
                    credits == SumOver(mine, [x \in mine |-> x.total_credits_attempted])
                    points == SumOver(mine,
                                  [x \in mine |-> x.total_credits_attempted * x.gpa])
                IN  /\ \E row \in mine \ semester_results :
                           students'[s].cgpa = {row.cgpa}
                    /\ \A row \in mine \ semester_results :
                           /\ students'[s].cgpa = {row.cgpa}
                           /\ Nearest(row.cgpa, points, credits)
                           /\ \A up \in BOOLEAN :
                                  /\ calculate_cgpa(s, up)'.status = 200
                                  /\ calculate_cgpa(s, up)'.cgpa = row.cgpa

\* C13: right after publish_results succeeds for a student, Student.cgpa and the
\* cgpa of the SemesterResults row just written are equal, are the credit-weighted
\* average of the GPAs of the student's stored semesters (this one and the
\* others), rounded to the hundredth, and are what calculate_cgpa answers for the
\* student in that state.
PublishedCgpaIsCalculatedCgpa ==
    [][PublishedCgpa]_vars

\* a second semester was published for a student and the CGPA combines the two
SecondSemesterCgpa ==
    /\ last.op = "publish_results"
    /\ last.ok = 1
    /\ \E x \in semester_results, y \in semester_results :
           /\ x.student_id = 1 /\ y.student_id = 1
           /\ x.semester # y.semester
           /\ y.id = 2
           /\ y.cgpa # y.gpa
           /\ y.cgpa # x.gpa
           /\ students[1].cgpa = {y.cgpa}

\* C14 as stated: for every non-empty cohort, in every reachable state,
\* publish_results answers with a response, never a propagated error, that has one
\* result per student of the cohort, in order, and total = published + failed.
PublishAlwaysResponds ==
    \A semester \in SemesterInputs, student_ids \in CohortInputs,
       desc \in BOOLEAN, up \in BOOLEAN :
        LET cohort == Cohort(semester, student_ids, desc)
            r == publish_results(semester, "2024-2025", student_ids, desc, up)
        IN  cohort # <<>> =>
                /\ r.status = 200
                /\ Len(r.results) = Len(cohort)
                /\ \A i \in DOMAIN cohort : r.results[i].student_id = cohort[i]
                /\ r.total = Len(cohort)
                /\ r.total = r.published + r.failed

\* C19 as stated: when a student has a published semester and graded courses in
\* another semester that is not published, publishing that semester succeeds for
\* the student, leaves the rows there were, adds a row of the semester, and gives
\* it the CGPA of both semesters.
SecondSemesterPublishes ==
    \A s \in DOMAIN students, semester \in SemesterInputs,
       desc \in BOOLEAN, up \in BOOLEAN :
        LET r == _publish_student_result(semester_results, students, now, s, semester,
                                         "2024-2025", desc, up)
            mine == {x \in r.semester_results : x.student_id = s}
            credits == SumOver(mine, [x \in mine |-> x.total_credits_attempted])
            points == SumOver(mine, [x \in mine |-> x.total_credits_attempted * x.gpa])
        IN  (/\ \E x \in semester_results : x.student_id = s /\ x.semester # semester
             /\ find_semester_result(semester_results, s, semester) = {}
             /\ GradesOfStudentSemester(s, semester) # {}) =>
                /\ r.success
                /\ semester_results \subseteq r.semester_results
                /\ \E y \in r.semester_results \ semester_results :
                       /\ y.student_id = s
                       /\ y.semester = semester
                       /\ Nearest(y.cgpa, points, credits)
                       /\ r.students[s].cgpa = {y.cgpa}

\* C21 as stated: publish_results takes the listed student_ids that exist when the
\* list is not empty, and otherwise the students whose semester is the requested
\* one; for an empty cohort it answers 404 and writes nothing, and otherwise it
\* answers with total the number of students of the cohort, one result each.
PublishResolvesCohort ==
    \A semester \in SemesterInputs, student_ids \in CohortInputs,
       desc \in BOOLEAN, up \in BOOLEAN :
        LET expected ==
                IF student_ids # <<>>
                THEN {student_ids[i] : i \in DOMAIN student_ids} \cap DOMAIN students
                ELSE {s \in DOMAIN students : students[s].semester = semester}
            r == publish_results(semester, "2024-2025", student_ids, desc, up)
        IN  IF expected = {}
            THEN /\ r.status = 404
                 /\ r.semester_results = semester_results
                 /\ r.students = students
            ELSE /\ r.status = 200
                 /\ r.total = Cardinality(expected)
                 /\ {r.results[i].student_id : i \in DOMAIN r.results} = expected

CgpaOfSemesterResults ==
    \A s \in DOMAIN students, up \in BOOLEAN :
        LET rows == {x \in semester_results : x.student_id = s}
            credits == SumOver(rows, [x \in rows |-> x.total_credits_attempted])
            points == SumOver(rows, [x \in rows |-> x.total_credits_attempted * x.gpa])
            r == calculate_cgpa(s, up)
        IN  IF rows = {} THEN r.status = 404
            ELSE /\ r.status = 200
                 /\ r.total_credits = credits
                 /\ IF credits > 0 THEN Nearest(r.cgpa, points, credits) ELSE r.cgpa = 0

CgpaUnchangedByGrades ==
    (semester_results' = semester_results /\ students' = students) =>
        \A s \in StudentInputs, up \in BOOLEAN :
            calculate_cgpa(s, up)' = calculate_cgpa(s, up)

\* C10: calculate_cgpa answers with the sum of total_credits_attempted * gpa over
\* the student's SemesterResults rows divided by the sum of their
\* total_credits_attempted, rounded to the hundredth, and with 404 (NotFound) when
\* the student has no row; a step that leaves SemesterResults and Students as they
\* were, whatever it does to Grades, leaves the answer as it was.
CgpaFromSemesterResultsOnly ==
    []CgpaOfSemesterResults /\ [][CgpaUnchangedByGrades]_vars

\* calculate_cgpa answered for a student with two published semesters of different
\* credits and GPA
CgpaOfTwoSemesters ==
    /\ last.op = "calculate_cgpa"
    /\ last.status = 200
    /\ \E x \in semester_results, y \in semester_results :
           /\ x.student_id = 1 /\ y.student_id = 1
           /\ x.semester = 1 /\ y.semester = 2
           /\ x.gpa # y.gpa
           /\ x.total_credits_attempted # y.total_credits_attempted
           /\ last.value * 2 # x.gpa + y.gpa

\* Result Aggregator
InitSgpa == InitTables({3, 4})

NextSgpa ==
    \/ \E student_id \in StudentInputs, semester \in SemesterInputs, up \in BOOLEAN :
           CalculateSgpa(student_id, semester, up)
    \/ \E a \in 1..3 :
           UpdateAssessment(a, TRUE, 2, FALSE, 50)

SpecSgpa == InitSgpa /\ [][NextSgpa]_vars

ReadsLeaveTheTables ==
    last'.op \in {"calculate_sgpa", "calculate_cgpa"} =>
        /\ UNCHANGED <<assessments, grades, semester_results, students>>
        /\ last'.op = "calculate_sgpa" =>
               \E s \in StudentInputs, semester \in SemesterInputs, up \in BOOLEAN :
                   /\ calculate_sgpa(s, semester, up).status = last'.status
                   /\ calculate_sgpa(s, semester, up).sgpa = last'.value
                   /\ calculate_sgpa(s, semester, up)' = calculate_sgpa(s, semester, up)

CgpaChangesAtPublish ==
    last'.op # "publish_results" =>
        \A s \in DOMAIN students : students'[s].cgpa = students[s].cgpa

\* the SGPA answered for the student and semester of grade g is the GPA that a
\* publish of that student and semester would store now
SgpaIsGpaToPublish(g, up) ==
    LET s == EnrollmentStudent[g.enrollment_id]
        semester == OfferingSemester[assessments[g.assessment_id].course_offering_id]
    IN  /\ calculate_sgpa(s, semester, up).status = 200
        /\ _publish_student_result(semester_results, students, now, s, semester,
                                   "2024-2025", FALSE, up).gpa
               \subseteq {calculate_sgpa(s, semester, up).sgpa}

\* after update_grade the SGPA of the changed grade's student and semester is
\* computed from the new marks, and calculate_cgpa answers as it did
SgpaFollowsUpdatedGrade ==
    (last'.op = "update_grade" /\ last'.status = 200) =>
        /\ \A g \in grades' \ grades, up \in BOOLEAN : SgpaIsGpaToPublish(g, up)'
        /\ \A s \in StudentInputs, up \in BOOLEAN :
               calculate_cgpa(s, up)' = calculate_cgpa(s, up)

\* C20: when a grade of a published semester is changed with update_grade and
\* publish_results is not called again, calculate_sgpa of the semester answers
\* from the new marks while calculate_cgpa and Student.cgpa keep the values of the
\* last publish; these change only at a publish_results.
SgpaLiveCgpaPublished ==
    [][SgpaFollowsUpdatedGrade /\ CgpaChangesAtPublish]_vars

\* a grade of a published semester was changed: the SGPA of the semester is no
\* longer the published GPA, and the student's cgpa is still the published one
GradeChangedAfterPublish ==
    /\ last.op = "update_grade"
    /\ last.status = 200
    /\ \E x \in semester_results :
           /\ calculate_sgpa(x.student_id, x.semester, FALSE).status = 200
           /\ calculate_sgpa(x.student_id, x.semester, FALSE).sgpa # x.gpa
           /\ students[x.student_id].cgpa = {x.cgpa}
           /\ calculate_cgpa(x.student_id, FALSE).cgpa = x.cgpa

(***************************************************************************)
(* Publishing over the marks that the recorder accepts, a negative mark    *)
(* included.                                                               *)
(***************************************************************************)
InitMarks == InitTables({-1, 4})

NextMarks ==
    \/ \E semester \in SemesterInputs, student_ids \in CohortInputs,
          desc \in BOOLEAN, up \in BOOLEAN :
           PublishResults(semester, "2024-2025", student_ids, desc, up)
    \/ \E id \in GradeIdInputs, m \in {-1, 4} :
           UpdateGrade(id, TRUE, m, FALSE, "fixed", "f2")

SpecMarks == InitMarks /\ [][NextMarks]_vars

\* C24 as stated: every semester_results row has gpa and cgpa from 0 to 10 and
\* total_credits_earned from 0 to total_credits_attempted, and every student's
\* cgpa that is set is from 0 to 10.
PublishedValuesInRange ==
    /\ \A r \in semester_results :
           /\ 0 <= r.gpa /\ r.gpa <= 1000
           /\ 0 <= r.cgpa /\ r.cgpa <= 1000
           /\ 0 <= r.total_credits_earned
           /\ r.total_credits_earned <= r.total_credits_attempted
    /\ \A s \in DOMAIN students : \A v \in students[s].cgpa : 0 <= v /\ v <= 1000

(***************************************************************************)
(* Properties of the SGPA, under SpecSgpa.                                 *)
(***************************************************************************)
\* one course of 4 credits graded 3/4 at weightage 60 and 4/4 at weightage 40: 85 %
OneCourseAt85 ==
    /\ grades = {[RecordedGrade(1, 1, 1, 3) EXCEPT !.id = 1],
                 [RecordedGrade(1, 1, 2, 4) EXCEPT !.id = 2]}
    /\ \A a \in DOMAIN assessments : assessments[a].updated_at = 0

\* C9: calculate_sgpa answers with the sum of credits * grade point divided by the
\* sum of credits, rounded to the hundredth, over exactly the courses in which the
\* student has a grade on an assessment of an offering of the semester, each
\* course's percentage being the sum of marks_obtained / max_marks * weightage over
\* its graded assessments; it answers 404 (NotFound) when there is no such course;
\* one course of 4 credits at 85 % gives 8.50.
SgpaOverGradedCourses ==
    \A s \in DOMAIN students, semester \in SemesterInputs, up \in BOOLEAN :
        LET mine == {g \in grades :
                        /\ EnrollmentStudent[g.enrollment_id] = s
                        /\ OfferingSemester[
                               assessments[g.assessment_id].course_offering_id] = semester}
            courses == {g.course_id : g \in mine}
            pct == [c \in courses |-> WeightedPercentage({g \in mine : g.course_id = c})]
            gp == [c \in courses |-> _percentage_to_grade(pct[c], up)[1]]
            credits == SumOver(courses, [c \in courses |-> CourseCredits[c]])
            points == SumOver(courses, [c \in courses |-> CourseCredits[c] * gp[c]])
            r == calculate_sgpa(s, semester, up)
        IN  /\ IF courses = {} THEN r.status = 404
               ELSE /\ r.status = 200
                    /\ {x.course_id : x \in r.courses} = courses
                    /\ r.total_credits = credits
                    /\ Nearest(r.sgpa, points, credits)
            /\ (OneCourseAt85 /\ s = 1 /\ semester = 1) =>
                   /\ pct[1].num = 85 * pct[1].den
                   /\ r.total_credits = 4
                   /\ r.sgpa = 850

\* calculate_sgpa answered 8.50 for the course at 85 %
SgpaOfOneCourseAt85 ==
    /\ OneCourseAt85
    /\ last.op = "calculate_sgpa"
    /\ last.status = 200
    /\ last.value = 850

(***************************************************************************)
(* The grade scale alone: _percentage_to_grade on every percentage, in     *)
(* hundredths, up to MaxPercentage / 100 on either side of zero.           *)
(***************************************************************************)
MaxPercentage == 11000

InitScale ==
    /\ assessments = <<Assessment(1, "midterm", 4, 60), Assessment(1, "final", 4, 40),
                      Assessment(2, "final", 4, 100)>>
    /\ grades = {}
    /\ semester_results = {}
    /\ students = <<[semester |-> 1, cgpa |-> {}, updated_at |-> 0],
                    [semester |-> 1, cgpa |-> {}, updated_at |-> 0]>>
    /\ clock = 0
    /\ last = NoRequest
    /\ calls = <<>>
    /\ InitOthers
    /\ scale \in [percentage : (0 - MaxPercentage)..MaxPercentage, up : BOOLEAN,
                  grade : {<<>>}]

NextScale == PercentageToGrade

SpecScale == InitScale /\ [][NextScale]_vars

(***************************************************************************)
(* Properties of the grade scale, under SpecScale.  scale.percentage is    *)
(* the percentage in hundredths, the grade point is in hundredths.         *)
(***************************************************************************)
LetterOf(p) ==
    IF p >= 9000 THEN "O"
    ELSE IF p >= 8000 THEN "A+"
    ELSE IF p >= 7000 THEN "A"
    ELSE IF p >= 6000 THEN "B+"
    ELSE IF p >= 5000 THEN "B"
    ELSE IF p >= 4000 THEN "C"
    ELSE "F"

\* C8: for every percentage p, _percentage_to_grade(p) answers the grade point
\* min(round(p / 10, 2), 10.0), that is 10.0 from p = 100 on and otherwise a nearest
\* hundredth of p / 10 that is at most 10.0, and the letter O from 90, A+ from 80,
\* A from 70, B+ from 60, B from 50, C from 40 and F below; 90.0 gives (9.0, O),
\* 39.9 gives (3.99, F), 100.0 gives (10.0, O).
GradeScale ==
    scale.grade # <<>> =>
        LET p == scale.percentage
            gp == scale.grade[1]
        IN  /\ scale.grade[2] = LetterOf(p)
            /\ gp <= 1000
            /\ IF p >= 10000 THEN gp = 1000 ELSE Nearest(gp, p, 10)
            /\ (p = 9000) => scale.grade = <<900, "O">>
            /\ (p = 3990) => scale.grade = <<399, "F">>
            /\ (p = 10000) => scale.grade = <<1000, "O">>

\* _percentage_to_grade answered for a percentage above 100
GradeAboveHundred ==
    /\ scale.percentage > 10000
    /\ scale.grade = <<1000, "O">>

(***************************************************************************)
(* Two requests served at the same time, each in its own session: two      *)
(* submit_grade calls, or two publish_results calls for one student of one *)
(* semester.  A call reads, then writes; the store checks its unique       *)
(* constraints at the write, and an IntegrityError it raises reaches the   *)
(* caller as HTTP 500 where the method has no handler.                     *)
(***************************************************************************)
Callers == {1, 2}

SubmitCall(enrollment_id, assessment_id, marks_obtained) ==
    [op |-> "submit_grade", pc |-> "start", status |-> 0,
     enrollment_id |-> enrollment_id, assessment_id |-> assessment_id,
     marks_obtained |-> marks_obtained]

PublishCall(student_id, semester, desc) ==
    [op |-> "publish_results", pc |-> "start", status |-> 0,
     student_id |-> student_id, semester |-> semester, desc |-> desc,
     existing |-> {}, row |-> {}, wrote_at |-> 0]

\* submit_grade up to the lookup of the pair: every check of the method
SubmitGradeCheck(p) ==
    LET c == calls[p]
        r == submit_grade(c.enrollment_id, 1, c.assessment_id, c.marks_obtained,
                          "new", "f1")
    IN  /\ c.op = "submit_grade"
        /\ c.pc = "start"
        /\ calls' = [calls EXCEPT ![p] =
               IF r.status = 201 THEN [c EXCEPT !.pc = "checked"]
               ELSE [c EXCEPT !.pc = "done", !.status = r.status]]
        /\ UNCHANGED <<assessments, grades, semester_results, students, clock, last,
                       scale>>
        /\ UNCHANGED other_tables

\* create_grade: uix_enrollment_assessment rejects a second row of the pair
SubmitGradeCreate(p) ==
    LET c == calls[p]
        rejected == find_grade_by_enrollment_assessment(c.enrollment_id,
                                                        c.assessment_id) # {}
    IN  /\ c.op = "submit_grade"
        /\ c.pc = "checked"
        /\ grades' = IF rejected THEN grades
                     ELSE create_grade(grades,
                              Grades(c.enrollment_id, 1, c.assessment_id,
                                     c.marks_obtained, "new", "f1"))
        /\ clock' = IF rejected THEN clock ELSE now
        /\ calls' = [calls EXCEPT ![p] =
               [c EXCEPT !.pc = "done", !.status = IF rejected THEN 500 ELSE 201]]
        /\ UNCHANGED <<assessments, semester_results, students, last, scale>>
        /\ UNCHANGED other_tables

\* _publish_student_result up to find_semester_result: every read of the method
\* and the fields it assigns, on the tables as they are at the read
PublishRead(p) ==
    LET c == calls[p]
        r == _publish_student_result(semester_results, students, now, c.student_id,
                                     c.semester, "2024-2025", c.desc, FALSE)
        existing == find_semester_result(semester_results, c.student_id, c.semester)
    IN  /\ c.op = "publish_results"
        /\ c.pc = "start"
        /\ calls' = [calls EXCEPT ![p] =
               IF r.success
               THEN [c EXCEPT !.pc = "read", !.existing = existing,
                              !.row = r.semester_results \ semester_results]
               ELSE IF r.message = "IntegrityError"
               THEN [c EXCEPT !.pc = "read"]
               ELSE [c EXCEPT !.pc = "done",
                              !.status = IF r.raised THEN 500 ELSE 200]]
        /\ clock' = now
        /\ UNCHANGED <<assessments, grades, semester_results, students, last, scale>>
        /\ UNCHANGED other_tables

\* update_semester_result or create_semester_result: the commit of the row read
\* or built at the read; the store rejects a second row of an enrollment_id
PublishWrite(p) ==
    LET c == calls[p]
        ids == {x.id : x \in c.existing}
        rejected == \/ c.row = {}
                    \/ \E x \in semester_results, y \in c.row :
                           x.enrollment_id = y.enrollment_id
        created == {[y EXCEPT !.id = Cardinality(semester_results) + 1] : y \in c.row}
    IN  /\ c.op = "publish_results"
        /\ c.pc = "read"
        /\ semester_results' =
               IF c.existing # {}
               THEN {x \in semester_results : x.id \notin ids} \cup c.row
               ELSE IF rejected THEN semester_results
               ELSE semester_results \cup created
        /\ calls' = [calls EXCEPT ![p] =
               IF c.existing = {} /\ rejected
               THEN [c EXCEPT !.pc = "done", !.status = 500]
               ELSE [c EXCEPT !.pc = "written", !.wrote_at = now]]
        /\ clock' = now
        /\ UNCHANGED <<assessments, grades, students, last, scale>>
        /\ UNCHANGED other_tables

\* find_student_by_id and update_student_cgpa, then the response
PublishStudent(p) ==
    LET c == calls[p]
        cgpa == {y.cgpa : y \in c.row}
    IN  /\ c.op = "publish_results"
        /\ c.pc = "written"
        /\ students' =
               IF c.student_id \in DOMAIN students
               THEN [students EXCEPT ![c.student_id] =
                        [@ EXCEPT !.cgpa = cgpa, !.updated_at = now]]
               ELSE students
        /\ calls' = [calls EXCEPT ![p] = [c EXCEPT !.pc = "done", !.status = 200]]
        /\ clock' = now
        /\ UNCHANGED <<assessments, grades, semester_results, last, scale>>
        /\ UNCHANGED other_tables

InitStudents ==
    <<[semester |-> 1, cgpa |-> {}, updated_at |-> 0],
      [semester |-> 1, cgpa |-> {}, updated_at |-> 0]>>

\* two submit_grade calls on a table of at most one grade
InitSubmitRace ==
    /\ grades \in {g \in GradeTables({3}) : Cardinality(g) <= 1}
    /\ semester_results = {}
    /\ students = InitStudents
    /\ calls \in {[p \in Callers |-> SubmitCall(e[p], a[p], m[p])] :
                     e \in [Callers -> {1, 2}], a \in [Callers -> {1, 2}],
                     m \in [Callers -> {4, 5}]}

\* two publish_results calls for one student of one semester, whose result is
\* not published yet or was published before
InitPublishRace ==
    /\ grades \in GradeTables({3})
    /\ \E student_id \in {1, 2}, semester \in {1, 2}, before \in BOOLEAN :
           LET r == _publish_student_result({}, InitStudents, 0, student_id, semester,
                                            "2024-2025", FALSE, FALSE)
           IN  /\ semester_results = IF before THEN r.semester_results ELSE {}
               /\ students = IF before THEN r.students ELSE InitStudents
               /\ calls \in {[p \in Callers |->
                                 PublishCall(student_id, semester, desc[p])] :
                                 desc \in [Callers -> BOOLEAN]}

InitConcurrent ==
    /\ InitOthers
    /\ assessments = <<Assessment(1, "midterm", 4, 60), Assessment(1, "final", 4, 40),
                      Assessment(2, "final", 4, 100)>>
    /\ clock = 0
    /\ last = NoRequest
    /\ scale = [percentage |-> 0, up |-> FALSE, grade |-> <<>>]
    /\ InitSubmitRace \/ InitPublishRace

NextConcurrent ==
    \/ \E p \in Callers : SubmitGradeCheck(p)
    \/ \E p \in Callers : SubmitGradeCreate(p)
    \/ \E p \in Callers : PublishRead(p)
    \/ \E p \in Callers : PublishWrite(p)
    \/ \E p \in Callers : PublishStudent(p)

SpecConcurrent == InitConcurrent /\ [][NextConcurrent]_vars

AllDone == \A p \in Callers : calls[p].pc = "done"

\* the grades of the pair of caller p's submit_grade
GradesOfCall(p) ==
    {g \in grades : /\ g.enrollment_id = calls[p].enrollment_id
                    /\ g.assessment_id = calls[p].assessment_id}

\* both callers submitted for one pair and both passed the lookup of the pair
\* before either inserted: neither was answered by a check of the method
BothPassedTheLookup ==
    /\ AllDone
    /\ \A p \in Callers : calls[p].op = "submit_grade" /\ calls[p].status \in {201, 500}
    /\ calls[1].enrollment_id = calls[2].enrollment_id
    /\ calls[1].assessment_id = calls[2].assessment_id

\* C15: two concurrent submit_grade calls for one (enrollment_id, assessment_id)
\* pair that both pass the lookup of the pair before either inserts leave exactly
\* one Grade of the pair, and the call that loses is answered 409 Conflict.
SubmitRaceLoserGetsConflict ==
    BothPassedTheLookup =>
        /\ Cardinality(GradesOfCall(1)) = 1
        /\ \E p \in Callers : /\ calls[p].status = 201
                              /\ \A q \in Callers \ {p} : calls[q].status = 409

\* both callers published one student of one semester in which the student has
\* graded courses, and both are through
BothPublished ==
    /\ AllDone
    /\ \A p \in Callers : calls[p].op = "publish_results"
    /\ GradesOfStudentSemester(calls[1].student_id, calls[1].semester) # {}

\* the rows of the (student, semester) the two callers published
RowsOfCalls == find_semester_result(semester_results, calls[1].student_id, calls[1].semester)

\* C16: two concurrent publish_results calls for one (student, semester), under
\* every interleaving of their reads and writes, both complete and leave exactly
\* one semester_results row of the pair, holding what the last writer wrote.
PublishRaceLastWriterWins ==
    BothPublished =>
        /\ \A p \in Callers : calls[p].status = 200
        /\ Cardinality(RowsOfCalls) = 1
        /\ \A p \in Callers :
               (\A q \in Callers : calls[q].wrote_at <= calls[p].wrote_at) =>
                   \E x \in RowsOfCalls, y \in calls[p].row :
                       [x EXCEPT !.id = 0] = [y EXCEPT !.id = 0]

(***************************************************************************)
(* The whole system: every operation that the grading and results          *)
(* endpoints and the student update offer, one request at a time.          *)
(***************************************************************************)
MaxAssessments == 4

\* the unique constraints create_all builds on the table assessments: SQLAlchemy
\* reads __table_args__, and the entity names its tuple __tableargs__, so the
\* UniqueConstraint uix_course_assessment_name in it is never built
AssessmentTableArgs == {}

\* the store's IntegrityError at the insert of a second assessment of the pair
uix_course_assessment_name(course_offering_id, assessment_type) ==
    /\ "uix_course_assessment_name" \in AssessmentTableArgs
    /\ \E a \in DOMAIN assessments :
           /\ assessments[a].course_offering_id = course_offering_id
           /\ assessments[a].assessment_type = assessment_type

\* the id the table's serial gives a new row: the next after the greatest in use
NextAssessmentId == Greatest(DOMAIN assessments \cup {0}) + 1

create_assessment(course_offering_id, assessment_type, max_marks, weightage) ==
    IF course_offering_id \notin OfferingIds
    THEN [status |-> 404, detail |-> "Course offering not found",
          assessments |-> assessments]
    ELSE IF uix_course_assessment_name(course_offering_id, assessment_type)
    THEN [status |-> 409,
          detail |-> "Assessment with this type already exists for this course offering",
          assessments |-> assessments]
    ELSE [status |-> 201, detail |-> "",
          assessments |->
              [a \in DOMAIN assessments \cup {NextAssessmentId} |->
                  IF a \in DOMAIN assessments THEN assessments[a]
                  ELSE Assessment(course_offering_id, assessment_type, max_marks,
                                  weightage)]]

\* delete_assessment as it would be without the foreign key of grades.assessment_id
delete_assessment_unreferenced(id) ==
    IF find_assessment_by_id(id) = {}
    THEN [status |-> 404, detail |-> "Assessment not found", assessments |-> assessments]
    ELSE [status |-> 204, detail |-> "",
          assessments |-> [a \in DOMAIN assessments \ {id} |-> assessments[a]]]

\* the foreign key grades.assessment_id refuses the delete of a graded assessment
delete_assessment(id) ==
    IF find_assessment_by_id(id) = {}
    THEN [status |-> 404, detail |-> "Assessment not found", assessments |-> assessments]
    ELSE IF \E g \in grades : g.assessment_id = id
    THEN [status |-> 409, detail |-> "Cannot delete assessment with existing grades",
          assessments |-> assessments]
    ELSE [status |-> 204, detail |-> "",
          assessments |-> [a \in DOMAIN assessments \ {id} |-> assessments[a]]]

\* update_student as it would be if it cleared the student's CGPA
update_student_clearing_cgpa(id, semester) ==
    IF find_student_by_id(id) = {}
    THEN [status |-> 404, detail |-> "Student not found", students |-> students]
    ELSE [status |-> 200, detail |-> "",
          students |-> [students EXCEPT ![id] =
                           [@ EXCEPT !.semester = semester, !.cgpa = {}]]]

\* StudentService.update_student: of the fields it assigns the model's students
\* have semester
update_student(id, semester) ==
    IF find_student_by_id(id) = {}
    THEN [status |-> 404, detail |-> "Student not found", students |-> students]
    ELSE [status |-> 200, detail |-> "",
          students |-> [students EXCEPT ![id] = [@ EXCEPT !.semester = semester]]]

CreateAssessment(course_offering_id, assessment_type, max_marks, weightage) ==
    LET r == create_assessment(course_offering_id, assessment_type, max_marks, weightage)
    IN  /\ Respond("create_assessment", r.status, r.status = 201, 0, 0, 0)
        /\ Cardinality(DOMAIN r.assessments) <= MaxAssessments
        /\ assessments' = r.assessments
        /\ UNCHANGED <<grades, semester_results, students, scale>>

DeleteAssessment(id) ==
    LET r == delete_assessment(id)
    IN  /\ Respond("delete_assessment", r.status, r.status = 204, 0, 0, 0)
        /\ assessments' = r.assessments
        /\ UNCHANGED <<grades, semester_results, students, scale>>

UpdateStudent(id, semester) ==
    LET r == update_student(id, semester)
    IN  /\ Respond("update_student", r.status, r.students # students, 0, 0, 0)
        /\ students' = r.students
        /\ UNCHANGED <<assessments, grades, semester_results, scale>>

AssessmentTypeInputs == {"midterm", "quiz"}

\* the tables with at most one grade recorded
InitSystem == InitTables({3}) /\ Cardinality(grades) <= 1

NextSystem ==
    \/ \E e \in EnrollmentIds, c \in CourseIds, a \in 1..3 :
           SubmitGrade(e, c, a, 3, "new", "f1")
    \/ \E a \in 1..3, items \in SeqsUpTo(BulkItemInputs, 1) :
           BulkSubmitGrades(a, 1, items, "f1")
    \/ \E id \in GradeIdInputs :
           UpdateGrade(id, TRUE, 4, FALSE, "fixed", "f2")
    \/ \E o \in OfferingIds \cup {MissingId}, type \in AssessmentTypeInputs :
           CreateAssessment(o, type, 4, 50)
    \/ \E a \in AssessmentInputs :
           UpdateAssessment(a, TRUE, 2, FALSE, 50)
    \/ \E a \in AssessmentInputs \cup {3} :
           DeleteAssessment(a)
    \/ \E student_id \in StudentInputs, semester \in SemesterInputs, up \in BOOLEAN :
           CalculateSgpa(student_id, semester, up)
    \/ \E student_id \in StudentInputs, up \in BOOLEAN :
           CalculateCgpa(student_id, up)
    \/ \E student_id \in StudentInputs, semester \in SemesterInputs :
           UpdateStudent(student_id, semester)
    \/ \E semester \in SemesterInputs, student_ids \in CohortInputs,
          desc \in BOOLEAN, up \in BOOLEAN :
           PublishResults(semester, "2024-2025", student_ids, desc, up)

SpecSystem == InitSystem /\ [][NextSystem]_vars

\* no two assessments of one course offering have the same assessment_type
OneAssessmentPerType ==
    \A a, b \in DOMAIN assessments :
        (/\ assessments[a].course_offering_id = assessments[b].course_offering_id
         /\ assessments[a].assessment_type = assessments[b].assessment_type) => a = b

\* C17: there is at most one assessment per (course_offering_id, assessment_type),
\* and create_assessment for a pair that has an assessment answers 409 Conflict
\* and adds no row.
AssessmentPairIsUnique ==
    /\ OneAssessmentPerType
    /\ \A a \in DOMAIN assessments :
           LET r == create_assessment(assessments[a].course_offering_id,
                                      assessments[a].assessment_type, 4, 50)
           IN  r.status = 409 /\ r.assessments = assessments

\* C23: delete_assessment on an assessment that a grade refers to answers 409
\* (Conflict) and deletes nothing, and every grade's assessment_id is the id of an
\* assessment.
GradedAssessmentStays ==
    /\ \A g \in grades : g.assessment_id \in DOMAIN assessments
    /\ \A g \in grades :
           /\ delete_assessment(g.assessment_id).status = 409
           /\ delete_assessment(g.assessment_id).assessments = assessments

\* the delete of a graded assessment was refused, and an ungraded one is gone
GradedAssessmentDeleteRefused ==
    /\ last.op = "delete_assessment"
    /\ last.status = 409
    /\ Cardinality(DOMAIN assessments) = 2
    /\ grades # {}

\* a step that changes a semester_results row or a student's cgpa is a
\* publish_results request
WrittenByPublishOnly ==
    (\/ semester_results' # semester_results
     \/ \E s \in DOMAIN students : students'[s].cgpa # students[s].cgpa)
        => last'.op = "publish_results"

\* C18: Student.cgpa and the semester_results rows are written by publish_results
\* only; submit_grade, bulk_submit_grades, update_grade, create_assessment,
\* update_assessment, delete_assessment, calculate_sgpa, calculate_cgpa and
\* update_student leave them as they were.
PublisherOwnsResults == [][WrittenByPublishOnly]_vars

\* a student with a published CGPA has been updated
StudentUpdatedAfterPublish ==
    /\ last.op = "update_student"
    /\ last.status = 200
    /\ last.wrote
    /\ semester_results # {}
    /\ \E s \in DOMAIN students : students[s].cgpa # {} /\ students[s].semester = 2

(***************************************************************************)
(* Hostel rooms and allocations.  A method commits after each table it     *)
(* changes, so an exception leaves the commits made before it; the         *)
(* operators return the three tables as the method leaves them.  The       *)
(* timestamp columns are left out.                                         *)
(***************************************************************************)
HostelTables(status, h, r, a) ==
    [status |-> status, hostels |-> h, hostel_rooms |-> r, hostel_allocations |-> a]

find_hostel_by_id(id) == {h \in DOMAIN hostels : h = id}
find_room_by_id(id) == {r \in DOMAIN hostel_rooms : r = id}
find_allocation_by_id(id) == {a \in hostel_allocations : a.id = id}
find_active_allocation_for_student(student_id) ==
    {a \in hostel_allocations : a.student_id = student_id /\ a.status = "ACTIVE"}

HostelAllocation(student_id, hostel_id, room_id, remarks) ==
    [id |-> Cardinality(hostel_allocations) + 1, student_id |-> student_id,
     hostel_id |-> hostel_id, room_id |-> room_id, status |-> "ACTIVE",
     remarks |-> remarks]

\* hostel_allocations.student_id is unique: the store's IntegrityError at the
\* insert of a second row of the student into the table a
uix_allocation_student(a, student_id) == \E x \in a : x.student_id = student_id

\* occupied_beds += 1, and the room is OCCUPIED once it is full
RoomTaken(room) ==
    [room EXCEPT !.occupied_beds = @ + 1,
                 !.status = IF room.occupied_beds + 1 >= room.capacity
                            THEN "occupied" ELSE @]

\* occupied_beds = max(0, occupied_beds - 1), and the room is AVAILABLE when it
\* has a free bed
RoomLeft(room) ==
    LET beds == IF room.occupied_beds - 1 > 0 THEN room.occupied_beds - 1 ELSE 0
    IN  [room EXCEPT !.occupied_beds = beds,
                     !.status = IF beds < room.capacity THEN "available" ELSE @]

HostelLeft(hostel) ==
    [hostel EXCEPT !.occupied_capacity = IF @ - 1 > 0 THEN @ - 1 ELSE 0]

\* allocate_room as it would be without the check of the room's capacity
allocate_room_into_full(student_id, hostel_id, room_id, remarks) ==
    IF find_student_by_id(student_id) = {}
    THEN HostelTables(404, hostels, hostel_rooms, hostel_allocations)
    ELSE IF find_active_allocation_for_student(student_id) # {}
    THEN HostelTables(409, hostels, hostel_rooms, hostel_allocations)
    ELSE IF find_hostel_by_id(hostel_id) = {}
    THEN HostelTables(404, hostels, hostel_rooms, hostel_allocations)
    ELSE IF find_room_by_id(room_id) = {}
    THEN HostelTables(404, hostels, hostel_rooms, hostel_allocations)
    ELSE IF hostel_rooms[room_id].hostel_id # hostel_id
    THEN HostelTables(400, hostels, hostel_rooms, hostel_allocations)
    ELSE IF uix_allocation_student(hostel_allocations, student_id)
    THEN HostelTables(500, hostels, hostel_rooms, hostel_allocations)
    ELSE HostelTables(201,
             [hostels EXCEPT ![hostel_id].occupied_capacity = @ + 1],
             [hostel_rooms EXCEPT ![room_id] = RoomTaken(@)],
             hostel_allocations \cup
                 {HostelAllocation(student_id, hostel_id, room_id, remarks)})

allocate_room(student_id, hostel_id, room_id, remarks) ==
    IF find_student_by_id(student_id) = {}
    THEN HostelTables(404, hostels, hostel_rooms, hostel_allocations)
    ELSE IF find_active_allocation_for_student(student_id) # {}
    THEN HostelTables(409, hostels, hostel_rooms, hostel_allocations)
    ELSE IF find_hostel_by_id(hostel_id) = {}
    THEN HostelTables(404, hostels, hostel_rooms, hostel_allocations)
    ELSE IF find_room_by_id(room_id) = {}
    THEN HostelTables(404, hostels, hostel_rooms, hostel_allocations)
    ELSE IF hostel_rooms[room_id].hostel_id # hostel_id
    THEN HostelTables(400, hostels, hostel_rooms, hostel_allocations)
    ELSE IF hostel_rooms[room_id].occupied_beds >= hostel_rooms[room_id].capacity
    THEN HostelTables(409, hostels, hostel_rooms, hostel_allocations)
    ELSE IF uix_allocation_student(hostel_allocations, student_id)
    THEN HostelTables(500, hostels, hostel_rooms, hostel_allocations)
    ELSE HostelTables(201,
             [hostels EXCEPT ![hostel_id].occupied_capacity = @ + 1],
             [hostel_rooms EXCEPT ![room_id] = RoomTaken(@)],
             hostel_allocations \cup
                 {HostelAllocation(student_id, hostel_id, room_id, remarks)})

\* the transfer and the update of the remarks; room_id and remarks are sets,
\* empty when the request leaves the field out
update_allocation(id, room_id, remarks) ==
    IF find_allocation_by_id(id) = {}
    THEN HostelTables(404, hostels, hostel_rooms, hostel_allocations)
    ELSE LET allocation == CHOOSE a \in hostel_allocations : a.id = id
         IN  IF allocation.status # "ACTIVE"
             THEN HostelTables(400, hostels, hostel_rooms, hostel_allocations)
             ELSE IF room_id # {} /\ room_id # {allocation.room_id}
             THEN LET new_id == CHOOSE r \in room_id : TRUE
                  IN  IF find_room_by_id(new_id) = {}
                      THEN HostelTables(404, hostels, hostel_rooms, hostel_allocations)
                      ELSE IF hostel_rooms[new_id].occupied_beds >= hostel_rooms[new_id].capacity
                      THEN HostelTables(409, hostels, hostel_rooms, hostel_allocations)
                      ELSE LET transferred ==
                                   (hostel_allocations \ {allocation}) \cup
                                       {[allocation EXCEPT !.status = "TRANSFERRED"]}
                               old_left ==
                                   IF find_room_by_id(allocation.room_id) = {}
                                   THEN hostel_rooms
                                   ELSE [hostel_rooms EXCEPT ![allocation.room_id] = RoomLeft(@)]
                               new_hostel == hostel_rooms[new_id].hostel_id
                               new_allocation ==
                                   [HostelAllocation(allocation.student_id, new_hostel, new_id,
                                        IF remarks = {} THEN "Transferred from room"
                                        ELSE CHOOSE x \in remarks : TRUE)
                                    EXCEPT !.id = Cardinality(transferred) + 1]
                               old_hostel_left ==
                                   IF find_hostel_by_id(allocation.hostel_id) = {}
                                   THEN hostels
                                   ELSE [hostels EXCEPT ![allocation.hostel_id] = HostelLeft(@)]
                           IN  IF uix_allocation_student(transferred, allocation.student_id)
                               THEN HostelTables(500, hostels, old_left, transferred)
                               ELSE HostelTables(200,
                                        IF new_hostel # allocation.hostel_id
                                        THEN [old_hostel_left EXCEPT
                                                  ![new_hostel].occupied_capacity = @ + 1]
                                        ELSE hostels,
                                        [old_left EXCEPT ![new_id] = RoomTaken(@)],
                                        transferred \cup {new_allocation})
             ELSE IF remarks # {}
             THEN HostelTables(200, hostels, hostel_rooms,
                      (hostel_allocations \ {allocation}) \cup
                          {[allocation EXCEPT !.remarks = CHOOSE x \in remarks : TRUE]})
             ELSE HostelTables(200, hostels, hostel_rooms, hostel_allocations)

vacate_room(id) ==
    IF find_allocation_by_id(id) = {}
    THEN HostelTables(404, hostels, hostel_rooms, hostel_allocations)
    ELSE LET allocation == CHOOSE a \in hostel_allocations : a.id = id
         IN  IF allocation.status # "ACTIVE"
             THEN HostelTables(400, hostels, hostel_rooms, hostel_allocations)
             ELSE HostelTables(200,
                      IF find_hostel_by_id(allocation.hostel_id) = {}
                      THEN hostels
                      ELSE [hostels EXCEPT ![allocation.hostel_id] = HostelLeft(@)],
                      IF find_room_by_id(allocation.room_id) = {}
                      THEN hostel_rooms
                      ELSE [hostel_rooms EXCEPT ![allocation.room_id] = RoomLeft(@)],
                      (hostel_allocations \ {allocation}) \cup
                          {[allocation EXCEPT !.status = "VACATED"]})

\* capacity is a set, empty when the request leaves the field out; other says
\* that the request sets a field of HostelRoomUpdateRequest besides capacity
\* (room_type, floor, room_fee, aminities, status, is_active), which no
\* allocation reads
update_room(id, capacity, other) ==
    IF find_room_by_id(id) = {}
    THEN HostelTables(404, hostels, hostel_rooms, hostel_allocations)
    ELSE IF capacity = {} /\ ~other
    THEN HostelTables(400, hostels, hostel_rooms, hostel_allocations)
    ELSE IF \E c \in capacity : c < hostel_rooms[id].occupied_beds
    THEN HostelTables(400, hostels, hostel_rooms, hostel_allocations)
    ELSE HostelTables(200, hostels,
             [hostel_rooms EXCEPT
                  ![id].capacity = IF capacity = {} THEN @ ELSE CHOOSE c \in capacity : TRUE],
             hostel_allocations)

\* One request to the hostel service: the tables become what the method
\* leaves, and last records the request and its answer.
HostelRespond(op, t) ==
    /\ hostels' = t.hostels
    /\ hostel_rooms' = t.hostel_rooms
    /\ hostel_allocations' = t.hostel_allocations
    /\ last' = [op |-> op, status |-> t.status]
    /\ UNCHANGED <<grading, clock, library_books, book_issues, redis>>

AllocateRoom(student_id, hostel_id, room_id) ==
    HostelRespond("allocate_room", allocate_room(student_id, hostel_id, room_id, ""))

UpdateAllocation(id, room_id, remarks) ==
    HostelRespond("update_allocation", update_allocation(id, room_id, remarks))

VacateRoom(id) ==
    HostelRespond("vacate_room", vacate_room(id))

UpdateRoom(id, capacity, other) ==
    HostelRespond("update_room", update_room(id, capacity, other))

MaxCapacity == 2
RoomIdInputs == {1, 2, 3, MissingId}
OptionalOf(S) == {{}} \cup {{x} : x \in S}

NextHostel ==
    \/ \E s \in {1, 2, MissingId}, h \in {1, 2, MissingId}, r \in RoomIdInputs :
           AllocateRoom(s, h, r)
    \/ \E id \in {1, 2, MissingId}, r \in OptionalOf(RoomIdInputs), m \in OptionalOf({"moved"}) :
           UpdateAllocation(id, r, m)
    \/ \E id \in {1, 2, MissingId} : VacateRoom(id)
    \/ \E id \in RoomIdInputs, c \in OptionalOf(0 .. MaxCapacity), x \in BOOLEAN :
           UpdateRoom(id, c, x)

SpecHostel == Init /\ [][NextHostel]_vars

ActiveIn(room_id) ==
    {a \in hostel_allocations : a.status = "ACTIVE" /\ a.room_id = room_id}

\* C25: after any sequence of allocate_room, update_allocation, vacate_room
\* and update_room calls, taken one at a time, every hostel room has
\* 0 <= occupied_beds <= capacity.
OccupiedBedsWithinCapacity ==
    \A r \in DOMAIN hostel_rooms :
        /\ 0 <= hostel_rooms[r].occupied_beds
        /\ hostel_rooms[r].occupied_beds <= hostel_rooms[r].capacity

\* an allocation has filled a room after another allocation was ended
RoomFilledAfterRelease ==
    /\ last.op = "allocate_room"
    /\ last.status = 201
    /\ \E a \in hostel_allocations : a.status # "ACTIVE"
    /\ \E r \in DOMAIN hostel_rooms : /\ hostel_rooms[r].capacity > 0
                                      /\ hostel_rooms[r].occupied_beds = hostel_rooms[r].capacity
                                      /\ hostel_rooms[r].status = "occupied"

ActiveOfHostel(hostel_id) ==
    {a \in hostel_allocations : a.status = "ACTIVE" /\ a.hostel_id = hostel_id}

\* C26: after every completed allocate_room, transfer or vacate_room call,
\* successful or failed, each room's occupied_beds is the number of ACTIVE
\* allocations of the room, and each hostel's occupied_capacity is the number
\* of ACTIVE allocations of the hostel.
CountersMatchAllocations ==
    /\ \A r \in DOMAIN hostel_rooms :
           hostel_rooms[r].occupied_beds = Cardinality(ActiveIn(r))
    /\ \A h \in DOMAIN hostels :
           hostels[h].occupied_capacity = Cardinality(ActiveOfHostel(h))

\* the answer of update_allocation to a transfer of the allocation a to the
\* room new_id is all or nothing
AllOrNothing(a, new_id, t) ==
    IF t.status = 200
    THEN /\ [a EXCEPT !.status = "TRANSFERRED"] \in t.hostel_allocations
         /\ \E n \in t.hostel_allocations :
                /\ n.status = "ACTIVE"
                /\ n.room_id = new_id
                /\ {x \in t.hostel_allocations :
                        x.student_id = a.student_id /\ x.status = "ACTIVE"} = {n}
    ELSE /\ a \in t.hostel_allocations
         /\ t.hostel_rooms[a.room_id].occupied_beds = hostel_rooms[a.room_id].occupied_beds

\* C27: a transfer is all or nothing: when it succeeds the student has one
\* ACTIVE allocation, in the new room, and the old one is TRANSFERRED; when
\* it fails for any reason the original allocation is still ACTIVE and the
\* old room's occupied_beds is unchanged; and no student ever has more than
\* one ACTIVE allocation.
TransferAllOrNothing ==
    /\ \A s \in DOMAIN students : Cardinality(find_active_allocation_for_student(s)) <= 1
    /\ \A a \in hostel_allocations, new_id \in RoomIdInputs, m \in OptionalOf({"moved"}) :
           (a.status = "ACTIVE" /\ new_id # a.room_id)
               => AllOrNothing(a, new_id, update_allocation(a.id, {new_id}, m))

(***************************************************************************)
(* The library: books and their issues.  The columns that no method of the *)
(* circulation reads (title, author, dates, fines) are left out.           *)
(***************************************************************************)
LibraryTables(status, b, i) == [status |-> status, library_books |-> b, book_issues |-> i]

\* the rows of the users table, and the users that have an admin_staff row
UserIds == {1, 2}
AdminStaffUserIds == {1}

find_book_by_id(id) == {b \in DOMAIN library_books : b = id}
find_book_by_isbn(isbn) == {b \in DOMAIN library_books : library_books[b].isbn = isbn}
find_issue_by_id(id) == {i \in book_issues : i.id = id}
find_active_issue(book_id, user_id) ==
    {i \in book_issues : i.book_id = book_id /\ i.user_id = user_id /\ i.status = "issued"}

add_book(isbn, copies_total, is_referenced) ==
    IF find_book_by_isbn(isbn) # {}
    THEN LibraryTables(409, library_books, book_issues)
    ELSE LibraryTables(201,
             Append(library_books,
                    [isbn |-> isbn, copies_total |-> copies_total,
                     copies_available |-> copies_total, is_referenced |-> is_referenced]),
             book_issues)

\* copies_total and is_referenced are sets, empty when the request leaves the
\* field out
update_book(id, copies_total, is_referenced) ==
    IF find_book_by_id(id) = {}
    THEN LibraryTables(404, library_books, book_issues)
    ELSE IF copies_total = {} /\ is_referenced = {}
    THEN LibraryTables(400, library_books, book_issues)
    ELSE LET book == library_books[id]
             issued == book.copies_total - book.copies_available
         IN  IF \E new_total \in copies_total : new_total < issued
             THEN LibraryTables(400, library_books, book_issues)
             ELSE LibraryTables(200,
                      [library_books EXCEPT
                           ![id].copies_available =
                               IF copies_total = {} THEN @
                               ELSE (CHOOSE t \in copies_total : TRUE) - issued,
                           ![id].copies_total =
                               IF copies_total = {} THEN @ ELSE CHOOSE t \in copies_total : TRUE,
                           ![id].is_referenced =
                               IF is_referenced = {} THEN @ ELSE CHOOSE x \in is_referenced : TRUE],
                      book_issues)

issue_book(book_id, user_id, issued_by_user_id) ==
    IF find_book_by_id(book_id) = {}
    THEN LibraryTables(404, library_books, book_issues)
    ELSE IF library_books[book_id].is_referenced
    THEN LibraryTables(400, library_books, book_issues)
    ELSE IF library_books[book_id].copies_available <= 0
    THEN LibraryTables(409, library_books, book_issues)
    ELSE IF user_id \notin UserIds
    THEN LibraryTables(404, library_books, book_issues)
    ELSE IF find_active_issue(book_id, user_id) # {}
    THEN LibraryTables(409, library_books, book_issues)
    ELSE IF issued_by_user_id \notin AdminStaffUserIds
    THEN LibraryTables(403, library_books, book_issues)
    ELSE LibraryTables(201,
             [library_books EXCEPT ![book_id].copies_available = @ - 1],
             book_issues \cup {[id |-> Cardinality(book_issues) + 1, book_id |-> book_id,
                                user_id |-> user_id, status |-> "issued"]})

return_book(issue_id) ==
    IF find_issue_by_id(issue_id) = {}
    THEN LibraryTables(404, library_books, book_issues)
    ELSE LET issue == CHOOSE i \in book_issues : i.id = issue_id
         IN  IF issue.status # "issued"
             THEN LibraryTables(400, library_books, book_issues)
             ELSE LibraryTables(200,
                      IF find_book_by_id(issue.book_id) = {}
                      THEN library_books
                      ELSE [library_books EXCEPT ![issue.book_id].copies_available = @ + 1],
                      (book_issues \ {issue}) \cup {[issue EXCEPT !.status = "returned"]})

\* One request to the library service.
LibraryRespond(op, t) ==
    /\ library_books' = t.library_books
    /\ book_issues' = t.book_issues
    /\ last' = [op |-> op, status |-> t.status]
    /\ UNCHANGED <<grading, clock, hostels, hostel_rooms, hostel_allocations, redis>>

MaxBooks == 2
MaxIssues == 3
MaxCopies == 2

AddBook(isbn, copies_total, is_referenced) ==
    /\ Len(library_books) < MaxBooks
    /\ LibraryRespond("add_book", add_book(isbn, copies_total, is_referenced))

UpdateBook(id, copies_total, is_referenced) ==
    LibraryRespond("update_book", update_book(id, copies_total, is_referenced))

IssueBook(book_id, user_id, issued_by_user_id) ==
    /\ Cardinality(book_issues) < MaxIssues
    /\ LibraryRespond("issue_book", issue_book(book_id, user_id, issued_by_user_id))

ReturnBook(issue_id) ==
    LibraryRespond("return_book", return_book(issue_id))

CopiesInputs == -1 .. MaxCopies

NextLibrary ==
    \/ \E isbn \in {"i1", "i2"}, c \in CopiesInputs, x \in BOOLEAN : AddBook(isbn, c, x)
    \/ \E id \in (1 .. MaxBooks) \cup {MissingId}, c \in OptionalOf(CopiesInputs), x \in OptionalOf(BOOLEAN) :
           UpdateBook(id, c, x)
    \/ \E b \in (1 .. MaxBooks) \cup {MissingId}, u \in UserIds \cup {MissingId}, by \in UserIds :
           IssueBook(b, u, by)
    \/ \E id \in (1 .. MaxIssues) \cup {MissingId} : ReturnBook(id)

SpecLibrary == Init /\ [][NextLibrary]_vars

IssuedOf(book_id) == {i \in book_issues : i.book_id = book_id /\ i.status = "issued"}

\* C28: after any sequence of add_book, update_book, issue_book and
\* return_book calls, taken one at a time, every book has
\* 0 <= copies_available <= copies_total, and copies_total - copies_available
\* is the number of the book's issues whose status is ISSUED; an issue that
\* was returned cannot be returned again.
CopiesMatchIssues ==
    /\ \A b \in DOMAIN library_books :
           /\ 0 <= library_books[b].copies_available
           /\ library_books[b].copies_available <= library_books[b].copies_total
           /\ library_books[b].copies_total - library_books[b].copies_available
                  = Cardinality(IssuedOf(b))
    /\ \A i \in book_issues :
           i.status = "returned" =>
               return_book(i.id) = LibraryTables(400, library_books, book_issues)

(***************************************************************************)
(* The Redis store: a set of entries [key, value, expires_at], one per     *)
(* key, a key being <<prefix, name>>.  In the specifications that use the  *)
(* store, clock is the time in seconds; an entry is gone once clock has    *)
(* reached its expires_at.                                                 *)
(***************************************************************************)
redis_get(store, key) == {e.value : e \in {x \in store : x.key = key /\ x.expires_at > clock}}

redis_delete(store, key) == {e \in store : e.key # key}

redis_setex(store, key, seconds, value) ==
    redis_delete(store, key) \cup
        {[key |-> key, value |-> value, expires_at |-> clock + seconds]}

(***************************************************************************)
(* Tokens.  A token is a string; jwt.decode gives its payload, and fails   *)
(* for a token that is not one of the service's or whose exp has passed.   *)
(***************************************************************************)
TokenPayload ==
    [access_1 |-> [type |-> "access", sub |-> 1, exp |-> 200],
     access_2 |-> [type |-> "access", sub |-> 2, exp |-> 300],
     refresh_1 |-> [type |-> "refresh", sub |-> 1, exp |-> 400],
     refresh_9 |-> [type |-> "refresh", sub |-> MissingId, exp |-> 400]]

TokenInputs == DOMAIN TokenPayload \cup {"garbage"}

\* the payload in a set, empty where verify_token raises 401
verify_token(token) ==
    IF token \notin DOMAIN TokenPayload THEN {}
    ELSE IF TokenPayload[token].exp < clock THEN {}
    ELSE {TokenPayload[token]}

BLACKLIST_PREFIX == "blacklisted_token:"

\* the store after blacklist_token, in a set, empty where verify_token raises
blacklist_token(store, token) ==
    IF verify_token(token) = {} THEN {}
    ELSE LET remaining == TokenPayload[token].exp - clock
         IN  IF remaining > 0
             THEN {redis_setex(store, <<BLACKLIST_PREFIX, token>>, remaining, "1")}
             ELSE {store}

is_token_blacklisted(token) == redis_get(redis, <<BLACKLIST_PREFIX, token>>) # {}

\* the status of a request that depends on get_current_user: 200 stands for
\* the payload handed to the endpoint
get_current_user(token) ==
    IF is_token_blacklisted(token) THEN 401
    ELSE IF verify_token(token) = {} THEN 401
    ELSE IF TokenPayload[token].type # "access" THEN 401
    ELSE 200

\* the logout endpoint: get_current_user, then AuthService.logout
logout(access_token, refresh_token) ==
    IF get_current_user(access_token) # 200
    THEN [status |-> 401, redis |-> redis]
    ELSE LET first == CHOOSE st \in blacklist_token(redis, access_token) : TRUE
         IN  IF refresh_token = {} THEN [status |-> 200, redis |-> first]
             ELSE LET second == blacklist_token(first, CHOOSE t \in refresh_token : TRUE)
                  IN  IF second = {} THEN [status |-> 401, redis |-> first]
                      ELSE [status |-> 200, redis |-> CHOOSE st \in second : TRUE]

\* the status of AuthService.refresh_token: 200 stands for the new pair of
\* tokens
refresh_token(token) ==
    IF verify_token(token) = {} THEN 401
    ELSE IF TokenPayload[token].type # "refresh" THEN 401
    ELSE IF TokenPayload[token].sub \notin UserIds THEN 404
    ELSE 200

RedisRespond(op, status, store) ==
    /\ redis' = store
    /\ last' = [op |-> op, status |-> status]
    /\ UNCHANGED <<grading, clock, hostels, hostel_rooms, hostel_allocations,
                   library_books, book_issues>>

Logout(access_token, refresh) ==
    LET t == logout(access_token, refresh)
    IN  RedisRespond("logout", t.status, t.redis)

GetCurrentUser(token) == RedisRespond("get_current_user", get_current_user(token), redis)

RefreshToken(token) == RedisRespond("refresh_token", refresh_token(token), redis)

MaxTime == 500
TickSeconds == 100

\* the time passes, and the keys that have run out are removed
Tick ==
    /\ clock + TickSeconds <= MaxTime
    /\ clock' = clock + TickSeconds
    /\ redis' = {e \in redis : e.expires_at > clock'}
    /\ UNCHANGED <<grading, last, hostels, hostel_rooms, hostel_allocations,
                   library_books, book_issues>>

NextAuth ==
    \/ \E a \in TokenInputs, r \in OptionalOf(TokenInputs) : Logout(a, r)
    \/ \E t \in TokenInputs : GetCurrentUser(t)
    \/ \E t \in TokenInputs : RefreshToken(t)
    \/ Tick

SpecAuth == Init /\ [][NextAuth]_vars

\* C29: after logout(access_token, refresh_token) and until each token's own
\* expiry, get_current_user rejects the access token and refresh_token gives
\* no new tokens for the refresh token.  Only logout writes a blacklist key,
\* and the key lives until the token's exp, so a token with a live key is a
\* token that was logged out and has not expired.
LogoutRevokesTokens ==
    \A t \in DOMAIN TokenPayload :
        (is_token_blacklisted(t) /\ clock < TokenPayload[t].exp) =>
            /\ get_current_user(t) = 401
            /\ refresh_token(t) # 200

(***************************************************************************)
(* One-time passwords.  The store holds strings: INCR reads the decimal    *)
(* string of the counter and writes the string of the next number.         *)
(***************************************************************************)
OTP_PREFIX == "otp:"
OTP_ATTEMPTS_PREFIX == "otp_attempts:"
OTP_EXPIRY_SECONDS == 300
MAX_OTP_ATTEMPTS == 5

\* a key that has no time to live
NoExpiry == 1000000

\* int(s) for the decimal string of a counter
ParseInt(s) == CHOOSE n \in 0 .. MAX_OTP_ATTEMPTS + 1 : ToString(n) = s

redis_incr(store, key) ==
    LET live == {e \in store : e.key = key /\ e.expires_at > clock}
    IN  IF live = {}
        THEN redis_delete(store, key) \cup
                 {[key |-> key, value |-> ToString(1), expires_at |-> NoExpiry]}
        ELSE {IF e \in live THEN [e EXCEPT !.value = ToString(ParseInt(@) + 1)] ELSE e :
                  e \in store}

redis_expire(store, key, seconds) ==
    {IF e.key = key /\ e.expires_at > clock THEN [e EXCEPT !.expires_at = clock + seconds]
     ELSE e : e \in store}

store_otp(email, otp) ==
    redis_delete(redis_setex(redis, <<OTP_PREFIX, email>>, OTP_EXPIRY_SECONDS, otp),
                 <<OTP_ATTEMPTS_PREFIX, email>>)

OtpAnswer(status, ok, store) == [status |-> status, ok |-> ok, redis |-> store]

\* verify_otp as it would be with the code compared before the attempts are
\* counted
verify_otp_code_first(email, otp) ==
    LET attempts_key == <<OTP_ATTEMPTS_PREFIX, email>>
        attempts == redis_get(redis, attempts_key)
        stored_otp == redis_get(redis, <<OTP_PREFIX, email>>)
    IN  IF stored_otp = {otp}
        THEN OtpAnswer(200, TRUE,
                 redis_delete(redis_delete(redis, <<OTP_PREFIX, email>>), attempts_key))
        ELSE IF \E a \in attempts : ParseInt(a) >= MAX_OTP_ATTEMPTS
        THEN OtpAnswer(429, FALSE, redis)
        ELSE OtpAnswer(200, FALSE,
                 redis_expire(redis_incr(redis, attempts_key), attempts_key,
                              OTP_EXPIRY_SECONDS))

\* 429 where the HTTPException is raised, else 200 with the value returned
verify_otp(email, otp) ==
    LET attempts_key == <<OTP_ATTEMPTS_PREFIX, email>>
        attempts == redis_get(redis, attempts_key)
        stored_otp == redis_get(redis, <<OTP_PREFIX, email>>)
    IN  IF \E a \in attempts : ParseInt(a) >= MAX_OTP_ATTEMPTS
        THEN OtpAnswer(429, FALSE, redis)
        ELSE IF stored_otp = {otp}
        THEN OtpAnswer(200, TRUE,
                 redis_delete(redis_delete(redis, <<OTP_PREFIX, email>>), attempts_key))
        ELSE OtpAnswer(200, FALSE,
                 redis_expire(redis_incr(redis, attempts_key), attempts_key,
                              OTP_EXPIRY_SECONDS))

OtpRespond(op, email, otp, t) ==
    /\ redis' = t.redis
    /\ last' = [op |-> op, status |-> t.status, ok |-> t.ok, email |-> email, otp |-> otp]
    /\ UNCHANGED <<grading, clock, hostels, hostel_rooms, hostel_allocations,
                   library_books, book_issues>>

StoreOtp(email, otp) == OtpRespond("store_otp", email, otp, OtpAnswer(200, TRUE, store_otp(email, otp)))

VerifyOtp(email, otp) == OtpRespond("verify_otp", email, otp, verify_otp(email, otp))

EmailInputs == {"a@example.com"}
OtpInputs == {"111111", "222222"}

NextOtp ==
    \/ \E e \in EmailInputs, o \in OtpInputs : StoreOtp(e, o)
    \/ \E e \in EmailInputs, o \in OtpInputs : VerifyOtp(e, o)
    \/ Tick

SpecOtp == Init /\ [][NextOtp]_vars

\* the failed attempts counted for the email, 0 when the counter is not there
AttemptsIn(store, time, email) ==
    IF \E x \in store : x.key = <<OTP_ATTEMPTS_PREFIX, email>> /\ x.expires_at > time
    THEN ParseInt((CHOOSE x \in store : x.key = <<OTP_ATTEMPTS_PREFIX, email>>).value)
    ELSE 0

Attempts(email) == AttemptsIn(redis, clock, email)

\* each failed verify_otp counts one attempt, and the count goes down only at
\* store_otp, at a successful verify_otp, or as the time passes
FailedVerifyCounts ==
    \A e \in EmailInputs :
        /\ (clock' = clock /\ last'.op = "verify_otp" /\ last'.email = e
                /\ last'.status = 200 /\ ~last'.ok)
               => AttemptsIn(redis', clock', e) = Attempts(e) + 1
        /\ AttemptsIn(redis', clock', e) < Attempts(e)
               => \/ last'.op = "store_otp"
                  \/ last'.op = "verify_otp" /\ last'.status = 200 /\ last'.ok
                  \/ clock' # clock

\* with MAX_OTP_ATTEMPTS attempts counted, every code is answered 429 and the
\* store is left as it is
LockedOut ==
    \A e \in EmailInputs :
        Attempts(e) >= MAX_OTP_ATTEMPTS =>
            \A o \in OtpInputs : verify_otp(e, o) = OtpAnswer(429, FALSE, redis)

\* after a successful verify_otp no code verifies, the same code included
CodeConsumed ==
    (last.op = "verify_otp" /\ last.status = 200 /\ last.ok) =>
        \A o \in OtpInputs : ~verify_otp(last.email, o).ok

\* C30: once MAX_OTP_ATTEMPTS consecutive verify_otp calls for an email have
\* failed since the last store_otp, every further verify_otp, one with the
\* correct code included, is answered 429 until store_otp is called again or
\* the attempts counter expires; and a successful verify_otp consumes the
\* code, so the same code cannot be verified twice.
OtpAttemptsLimited == [][FailedVerifyCounts /\ LockedOut' /\ CodeConsumed']_vars

\* the correct code was refused with 429 after MAX_OTP_ATTEMPTS failures
CorrectCodeRefused ==
    /\ last.op = "verify_otp"
    /\ last.status = 429
    /\ redis_get(redis, <<OTP_PREFIX, last.email>>) = {last.otp}
    /\ Attempts(last.email) = MAX_OTP_ATTEMPTS

====
